---- MODULE Spec2Model ----
(***************************************************************************)
(* Model of the n8n media composition nodes: ImageVideoComposer.execute    *)
(* (nodes/ImageVideoComposer/ImageVideoComposer.node.ts) and               *)
(* VideoComposer.execute (unnamed/part_002).  Both compile a timeline into *)
(* an ffmpeg -filter_complex graph and invoke the encoder once per item.   *)
(* The merge nodes, VideoMerge.execute (unnamed/part_001) and              *)
(* AudioMerge.execute (nodes/AudioMerge/AudioMerge.node.ts), are modelled  *)
(* in the last part and run under MergeSpec.                               *)
(*                                                                         *)
(* Time.  The code computes with IEEE doubles in seconds.  The model uses  *)
(* exact fixed-point arithmetic: a duration is an integer count of         *)
(* "units", Sub units to the millisecond, so x seconds is x*1000*Sub       *)
(* units.  Rounding to milliseconds (Math.round, toFixed(3)) is modelled   *)
(* on these units; floating-point representation error is abstracted.      *)
(*                                                                         *)
(* Graph text.  A filter string is a sequence of tokens: an input pad      *)
(* reference "[3:a]", a label "[a0]", a filter with its parameters, the    *)
(* separator "," inside a chain and ";" between statements.  The code's    *)
(* string concatenation, slice(0, -1) and join(';') act on that sequence.  *)
(***************************************************************************)
EXTENDS Integers, Sequences, FiniteSets, TLC

\* ---------------------------------------------------------------- bounds
MaxItems  == 2      \* input items handed to one execute() call
MaxScenes == 2      \* scenes per image-based request
MaxTracks == 2      \* overlay audio tracks per request
Sub       == 4      \* time units per millisecond (sub-millisecond resolution)

MaxPathLen == 4      \* characters of a subtitle file name before its extension
MaxStderr  == 2      \* characters of encoder stderr output that are followed
MaxFiles   == 2      \* paths one merge request lists

\* ------------------------------------------------------- program constants
targetSampleRate == 44100
fps == 25
volumeGainDb == 4

\* ------------------------------------------------------------- arithmetic
\* x milliseconds as seconds (x / 1000), in units
MsToSec(ms) == ms * Sub

\* Whole milliseconds, the fraction cut off (Math.floor)
MathFloorMs(u) == u \div Sub

\* Math.round(sec * 1000): nearest millisecond, ties toward +Infinity
MathRoundMs(u) == (2 * u + Sub) \div (2 * Sub)

\* Thousandths obtained by cutting the remaining digits off
Truncate3(u) == IF u >= 0 THEN u \div Sub ELSE 0 - ((0 - u) \div Sub)

\* Number.prototype.toFixed(3) of a value in seconds: thousandths, ties to
\* the larger magnitude
ToFixed3(u) == IF u >= 0 THEN (2 * u + Sub) \div (2 * Sub)
               ELSE 0 - ((2 * (0 - u) + Sub) \div (2 * Sub))

\* The first of two numbers, whichever is smaller
FirstOfTwo(a, b) == a

\* Math.min
MathMin(a, b) == IF a <= b THEN a ELSE b

\* Math.ceil(duration * fps), duration in units
CeilFrames(u) == 0 - ((0 - (u * fps)) \div (1000 * Sub))

\* ----------------------------------------------------------------- tokens
\* One lexical element of a filter string.  k: kind or filter name,
\* s: symbolic parameter text, a and b: numeric parameters, p: a file path
\* (sequence of characters) where the filter embeds one.
Tok(k, s, a, b, p) == [k |-> k, s |-> s, a |-> a, b |-> b, p |-> p]

InPad(i, t)  == Tok("inpad", t, i, 0, <<>>)       \* "[i:v]" or "[i:a]"
Label(n, i)  == Tok("label", n, i, 0, <<>>)       \* "[v3]", "[a1]"
Named(n)     == Tok("label", n, 0 - 1, 0, <<>>)   \* "[outa]", "[mixed]", ...
Flt(k, s, a, b) == Tok(k, s, a, b, <<>>)
Comma == Tok(",", "", 0, 0, <<>>)
Semi  == Tok(";", "", 0, 0, <<>>)

\* A join that takes the filter strings last to first
RECURSIVE JoinReversed(_)
JoinReversed(parts) ==
    IF parts = <<>> THEN <<>>
    ELSE IF Len(parts) = 1 THEN parts[1]
    ELSE JoinReversed(Tail(parts)) \o <<Semi>> \o parts[1]

\* Array.prototype.join(';') over filter strings
RECURSIVE JoinParts(_)
JoinParts(parts) ==
    IF parts = <<>> THEN <<>>
    ELSE IF Len(parts) = 1 THEN parts[1]
    ELSE parts[1] \o <<Semi>> \o JoinParts(Tail(parts))

\* The string as it is, its last character kept
SliceNothing(str) == str

\* String.prototype.slice(0, -1)
SliceLast(str) == IF str = <<>> THEN <<>> ELSE SubSeq(str, 1, Len(str) - 1)

\* All sequences over S of length at most n
SeqsUpTo(S, n) == UNION {[1..k -> S] : k \in 0..n}

\* ---------------------------------------------------------- input domains
\* File paths: the scene images by position, the audio files and base
\* videos by what ffprobe reports for them
ImagePath(i) == [kind |-> "image", n |-> i]
AudioPath(k) == [kind |-> "audio", n |-> k]
VideoPath(k) == [kind |-> "video", n |-> k]

SilentFile == AudioPath(0)    \* an audio stream of duration 0
MonoFile   == AudioPath(1)    \* 2.00025 s, one channel
StereoFile == AudioPath(2)    \* 10 s, two channels
MuteFile   == AudioPath(3)    \* a file without an audio stream
CorruptFile == AudioPath(4)   \* a file the probe cannot read

\* The empty path a list entry without a path field is read as, and for each
\* kind of file a path where no file is
EmptyPath     == [kind |-> "empty", n |-> 0]
MissingFile(kind) == [kind |-> kind, n |-> 0 - 1]
\* fs.existsSync
Exists(path) == path.kind # "empty" /\ path.n >= 0

\* What the probe reports for an audio file: hasAudio and channels as in
\* metadata.streams, duration in units
MediaOf(path) ==
    CASE path = SilentFile -> [duration |-> 0,              hasAudio |-> TRUE,  channels |-> 2]
      [] path = MonoFile   -> [duration |-> 2000 * Sub + 1, hasAudio |-> TRUE,  channels |-> 1]
      [] path = StereoFile -> [duration |-> 10000 * Sub,    hasAudio |-> TRUE,  channels |-> 2]
      [] OTHER             -> [duration |-> 2000 * Sub,     hasAudio |-> FALSE, channels |-> 0]

\* Probed duration of every base video, in units
VideoDuration == 6000 * Sub + 1

StereoVideo == VideoPath(0)   \* video with a two-channel audio stream
MonoVideo   == VideoPath(1)   \* video with a one-channel audio stream
SilentVideo == VideoPath(2)   \* video without an audio stream
AudioOnly   == VideoPath(3)   \* a file without a video stream
CorruptVideo == VideoPath(4)  \* a file the probe cannot read
VideoFiles  == {StereoVideo, MonoVideo, SilentVideo, AudioOnly}

\* A probe that answers for every file
NeverFails(path) == FALSE

\* The probe of the file ends with an error (the process cannot start, exits
\* with a status other than 0, or prints what is not JSON)
ProbeFails(path) == path \in {CorruptFile, CorruptVideo}

\* What the probe reports for a base video
VideoMediaOf(path) ==
    CASE path = StereoVideo -> [hasVideo |-> TRUE,  hasAudio |-> TRUE,
                                duration |-> VideoDuration, channels |-> 2]
      [] path = MonoVideo   -> [hasVideo |-> TRUE,  hasAudio |-> TRUE,
                                duration |-> VideoDuration, channels |-> 1]
      [] path = SilentVideo -> [hasVideo |-> TRUE,  hasAudio |-> FALSE,
                                duration |-> VideoDuration, channels |-> 0]
      [] OTHER              -> [hasVideo |-> FALSE, hasAudio |-> TRUE,
                                duration |-> VideoDuration, channels |-> 2]

\* Scene durations (milliseconds) offered to the image-based composer
SceneDurations == {3000}

\* Overlay tracks offered to the image-based composer; start is
\* audio_starttime in milliseconds
ImageTracks ==
    { [path |-> f, start |-> t] : f \in {SilentFile, MonoFile, StereoFile}, t \in {0, 3000} }
    \ { [path |-> SilentFile, start |-> 3000] }

\* Overlay tracks offered to the video-based composer; start is startTime
\* in seconds (a number without a lower limit), here in units, so
\* sub-millisecond and negative offsets occur
VideoTracks ==
    { [path |-> MonoFile,   start |-> 0 - (1000 * Sub)],
      [path |-> MonoFile,   start |-> 3000 * Sub - 1],
      [path |-> StereoFile, start |-> 0],
      [path |-> StereoFile, start |-> VideoDuration],
      [path |-> MuteFile,   start |-> 0] }

\* Subtitle paths, as sequences of characters
NoSubtitle  == <<>>
SrtSubtitle == <<"/", "a", ":", "b", ".", "S", "r", "t">>
TxtSubtitle == <<"/", "a", ".", "t", "x", "t">>
SubtitlePaths == {NoSubtitle, SrtSubtitle, TxtSubtitle}
\* Subtitle paths where no file is: one with a supported extension, one without
MissingSrt == <<"/", "m", ".", "s", "r", "t">>
MissingTxt == <<"/", "m", ".", "t", "x", "t">>
\* A file with an unsupported extension written in capitals
UpperTxtSubtitle == <<"/", "a", ".", "T", "X", "t">>
SubtitleExists(sp) == sp \notin {MissingSrt, MissingTxt}

\* The parameters one input item supplies (Step 1 of either execute)
ImageRequestsOver(tracks, subtitles, kenBurns) ==
    { [sceneList |-> [i \in DOMAIN ds |->
                        [image_filepath |-> ImagePath(i - 1), scene_duration |-> ds[i]]],
       videoPath |-> VideoPath(0), audioList |-> al,
       subtitlePath |-> sp, enableKenBurns |-> kb, muteOriginalAudio |-> FALSE]
      : ds \in SeqsUpTo(SceneDurations, MaxScenes),
        al \in SeqsUpTo(tracks, MaxTracks),
        sp \in subtitles, kb \in kenBurns }

VideoRequestsOver(files, tracks, subtitles, mute) ==
    { r \in { [sceneList |-> <<>>, videoPath |-> vp, audioList |-> al,
               subtitlePath |-> sp, enableKenBurns |-> FALSE, muteOriginalAudio |-> m]
              : vp \in files, al \in SeqsUpTo(tracks, MaxTracks),
                sp \in subtitles, m \in mute }
        : r.muteOriginalAudio => r.videoPath = StereoVideo }

\* Requests with one defect: a path where no file is or that is empty, a
\* file the probe cannot read, a subtitle path without a file or with an
\* extension in capitals.  base is the set of requests the defect is put in.
BadSubtitles == {MissingSrt, MissingTxt, UpperTxtSubtitle}
WithBadScene(base) ==
    UNION { { [r EXCEPT !.sceneList[i].image_filepath = p]
              : i \in DOMAIN r.sceneList, p \in {EmptyPath, MissingFile("image")} }
            : r \in base }
WithBadTrack(base) ==
    UNION { { [r EXCEPT !.audioList[i].path = p]
              : i \in DOMAIN r.audioList,
                p \in {EmptyPath, MissingFile("audio"), CorruptFile} }
            : r \in base }
WithBadVideo(base) ==
    { [r EXCEPT !.videoPath = p]
      : r \in base, p \in {EmptyPath, MissingFile("video"), CorruptVideo} }
WithBadSubtitle(base) ==
    { [r EXCEPT !.subtitlePath = sp] : r \in base, sp \in BadSubtitles }

\* Requests whose scenes differ in duration or have a negative one, and a
\* track that starts before the timeline does (milliseconds)
OtherDurations == {2000, 0 - 1000}
EarlyTrack == [path |-> MonoFile, start |-> 0 - 1000]
UnevenImageRequests ==
    { [sceneList |-> [i \in DOMAIN ds |->
                        [image_filepath |-> ImagePath(i - 1), scene_duration |-> ds[i]]],
       videoPath |-> VideoPath(0), audioList |-> al,
       subtitlePath |-> NoSubtitle, enableKenBurns |-> FALSE,
       muteOriginalAudio |-> FALSE]
      : ds \in SeqsUpTo(SceneDurations \cup OtherDurations, MaxScenes),
        al \in SeqsUpTo({EarlyTrack, [path |-> StereoFile, start |-> 3000]}, 1) }

FewImageTracks == { [path |-> MonoFile, start |-> 0], [path |-> StereoFile, start |-> 3000] }
FewVideoTracks == { [path |-> MonoFile, start |-> 3000 * Sub - 1], [path |-> MuteFile, start |-> 0] }

\* The requests offered: every list of tracks without subtitle or zoom,
\* every subtitle and zoom setting with the lists over a few tracks, and
\* the requests with a defect
ImageRequests ==
    LET base == ImageRequestsOver(FewImageTracks, SubtitlePaths, {FALSE})
    IN  ImageRequestsOver(ImageTracks, {NoSubtitle}, {FALSE})
        \cup ImageRequestsOver(FewImageTracks, SubtitlePaths, BOOLEAN)
        \cup UnevenImageRequests
        \cup WithBadScene(base) \cup WithBadTrack(base) \cup WithBadSubtitle(base)

VideoRequests ==
    LET base == VideoRequestsOver({MonoVideo}, FewVideoTracks, SubtitlePaths, {FALSE})
    IN  VideoRequestsOver(VideoFiles, VideoTracks, {NoSubtitle}, BOOLEAN)
        \cup VideoRequestsOver(VideoFiles, FewVideoTracks, SubtitlePaths, BOOLEAN)
        \cup WithBadVideo(base) \cup WithBadTrack(base) \cup WithBadSubtitle(base)

NoRequest == [sceneList |-> <<>>, videoPath |-> VideoPath(0), audioList |-> <<>>,
              subtitlePath |-> <<>>, enableKenBurns |-> FALSE,
              muteOriginalAudio |-> FALSE]
NoVideoInfo == [hasVideo |-> FALSE, hasAudio |-> FALSE, duration |-> 0, channels |-> 0]

\* -------------------------------------------------------- subtitle strings
\* String.prototype.trim().length > 0 on the characters used here
Trimmed(str) == SelectSeq(str, LAMBDA c : c # " ")
HasSubtitle(sp) == Len(sp) > 0 /\ Len(Trimmed(sp)) > 0

\* String.prototype.replace(/c/g, rep)
RECURSIVE ReplaceAll(_, _, _)
ReplaceAll(str, c, rep) ==
    IF str = <<>> THEN <<>>
    ELSE (IF Head(str) = c THEN rep ELSE <<Head(str)>>) \o ReplaceAll(Tail(str), c, rep)

\* The three replacements with the colon handled before the backslash
escapeColonFirst(filePath) ==
    ReplaceAll(ReplaceAll(ReplaceAll(filePath,
        ":", <<"\\", ":">>),
        "\\", <<"\\", "\\", "\\", "\\">>),
        "'", <<"\\", "'">>)

escapeSubtitlePath(filePath) ==
    ReplaceAll(ReplaceAll(ReplaceAll(filePath,
        "\\", <<"\\", "\\", "\\", "\\">>),
        ":", <<"\\", ":">>),
        "'", <<"\\", "'">>)

\* String.prototype.toLowerCase on the letters used here
LowerChar(c) == CASE c = "S" -> "s" [] c = "R" -> "r" [] c = "T" -> "t"
                  [] c = "A" -> "a" [] c = "V" -> "v" [] c = "X" -> "x"
                  [] OTHER -> c
ToLowerCase(str) == [i \in DOMAIN str |-> LowerChar(str[i])]

\* path.extname: from the last "." of the last path component, "" when there
\* is none or when it is the component's first character
LastIndexOf(str, c) ==
    IF \E i \in DOMAIN str : str[i] = c
    THEN CHOOSE i \in DOMAIN str : str[i] = c /\ \A j \in DOMAIN str : str[j] = c => j <= i
    ELSE 0
ExtName(str) ==
    LET slash == LastIndexOf(str, "/")
        base  == SubSeq(str, slash + 1, Len(str))
        dot   == LastIndexOf(base, ".")
    IN IF dot <= 1 THEN <<>> ELSE SubSeq(base, dot, Len(base))

supportedFormats == { <<".", "s", "r", "t">>, <<".", "a", "s", "s">>,
                      <<".", "s", "s", "a">>, <<".", "v", "t", "t">> }
\* A format check that lets every extension through
AcceptAnyFormat(filePath) == TRUE
\* getSubtitleFormat throws unless the lower-cased extension is supported
SubtitleFormatOk(filePath) == ToLowerCase(ExtName(filePath)) \in supportedFormats

\* --------------------------------------------------- image-based: Step 5
\* 5.3 the filter string of scene i (0-based), durationMs its scene_duration
SceneFilter(i, durationMs, enableKenBurns) ==
    LET duration    == MsToSec(durationMs)
        totalFrames == CeilFrames(duration)
    IN  <<InPad(i, "v"),
          Flt("scale", "1920:1080:force_original_aspect_ratio=decrease", 0, 0), Comma,
          Flt("pad", "1920:1080:(ow-iw)/2:(oh-ih)/2", 0, 0), Comma,
          Flt("setsar", "1", 0, 0), Comma,
          Flt("fps", "", fps, 0), Comma>>
        \o (IF enableKenBurns
            THEN <<Flt("zoompan", "z=1+0.1*on/frames:s=1920x1080", totalFrames, totalFrames), Comma>>
            ELSE <<>>)
        \o <<Flt("trim", "duration", duration, 0), Comma,
             Flt("setpts", "PTS-STARTPTS", 0, 0),
             Label("v", i)>>

\* A concat that counts the scene labels from 1
ConcatFromOne(n) ==
    [j \in 1..n |-> Label("v", j)]
    \o <<Flt("concat", "v=1:a=0", n, 0), Named("video_concat")>>

\* A concat that takes the scene labels last to first
ConcatReversed(n) ==
    [j \in 1..n |-> Label("v", n - j)]
    \o <<Flt("concat", "v=1:a=0", n, 0), Named("video_concat")>>

\* 5.4 concat of the scene labels
ConcatFilter(n) ==
    [j \in 1..n |-> Label("v", j - 1)]
    \o <<Flt("concat", "v=1:a=0", n, 0), Named("video_concat")>>

\* Subtitle burning that leaves the label as it is when there is no subtitle
SubtitleFilterWithoutCopy(subtitlePath) ==
    IF HasSubtitle(subtitlePath)
    THEN <<Named("video_concat"),
           Tok("subtitles", "charenc=UTF-8", 0, 0, escapeSubtitlePath(subtitlePath)),
           Named("outv")>>
    ELSE <<>>

\* 5.4.1 subtitle burning, or the copy that renames the label
ImageSubtitleFilter(subtitlePath) ==
    IF HasSubtitle(subtitlePath)
    THEN <<Named("video_concat"),
           Tok("subtitles", "charenc=UTF-8", 0, 0, escapeSubtitlePath(subtitlePath)),
           Named("outv")>>
    ELSE <<Named("video_concat"), Flt("copy", "", 0, 0), Named("outv")>>

\* A skip test that lets a track of effective duration 0 through
SkippedOnlyWhenNegative(startMs, duration, total) ==
    MathMin(duration, total - MsToSec(startMs)) < 0

\* 5.5 whether the loop body reaches "continue" for a track
ImageTrackSkipped(startMs, duration, total) ==
    MathMin(duration, total - MsToSec(startMs)) <= 0

\* 5.5 the filter string of track i (0-based) when it is not skipped;
\* startMs: audio_starttime
ImageAudioFilter(i, startMs, duration, total, audioStartIndex) ==
    LET startTime         == MsToSec(startMs)
        inputIndex        == audioStartIndex + i
        maxDuration       == total - startTime
        effectiveDuration == MathMin(duration, maxDuration)
        head == <<InPad(inputIndex, "a"),
                  Flt("aresample", "", targetSampleRate, 0), Comma,
                  Flt("aformat", "stereo", targetSampleRate, 0), Comma,
                  Flt("atrim", "", 0, effectiveDuration), Comma,
                  Flt("asetpts", "PTS-STARTPTS", 0, 0), Comma>>
        delayMs == MathRoundMs(startTime)
        delayed == IF startTime > 0
                   THEN head \o <<Flt("adelay", "all=1", delayMs, delayMs), Comma>>
                   ELSE head
        padDuration == total - effectiveDuration - startTime
        padded == IF padDuration > 0
                  THEN delayed \o <<Flt("apad", "pad_dur", ToFixed3(padDuration), 0)>>
                  ELSE SliceLast(delayed)
    IN  padded \o <<Label("a", i)>>

\* A mix statement whose silence has no duration limit
MixWithEndlessSilence(labels, total) ==
    IF Len(labels) = 0
    THEN <<Flt("anullsrc", "stereo", targetSampleRate, 0), Named("outa")>>
    ELSE IF Len(labels) = 1
    THEN <<labels[1], Flt("anull", "", 0, 0), Named("outa")>>
    ELSE labels
         \o <<Flt("amix", "duration=longest:dropout_transition=0:normalize=0", Len(labels), 0),
              Named("mixed"), Semi,
              Named("mixed"), Flt("volume", "dB", volumeGainDb, 0), Named("outa")>>

\* 5.6 the mix statement for the surviving labels
ImageMixFilter(labels, total) ==
    IF Len(labels) = 0
    THEN <<Flt("anullsrc", "stereo", targetSampleRate, total), Named("outa")>>
    ELSE IF Len(labels) = 1
    THEN <<labels[1], Flt("anull", "", 0, 0), Named("outa")>>
    ELSE labels
         \o <<Flt("amix", "duration=longest:dropout_transition=0:normalize=0", Len(labels), 0),
              Named("mixed"), Semi,
              Named("mixed"), Flt("volume", "dB", volumeGainDb, 0), Named("outa")>>

\* --------------------------------------------------- video-based: Step 4
\* Step 4.1 the subtitle statement over the base video, if any
VideoSubtitleParts(subtitlePath) ==
    IF HasSubtitle(subtitlePath)
    THEN << <<InPad(0, "v"),
              Tok("subtitles", "", 0, 0, escapeSubtitlePath(subtitlePath)),
              Named("outv")>> >>
    ELSE <<>>

\* Step 4.1 the value later passed to the first -map: '0:v' or '[outv]'
VideoOutputLabel(subtitlePath) ==
    IF HasSubtitle(subtitlePath) THEN Named("outv") ELSE Tok("stream", "v", 0, 0, <<>>)

\* audioStream?.channels || 2
ChannelsOr2(channels) == IF channels = 0 THEN 2 ELSE channels

\* The original audio taken into the graph whether muting is asked for or not
OriginalAudioDespiteMute(muteOriginalAudio, info) ==
    IF info.hasAudio
    THEN << <<InPad(0, "a"),
              Flt("aresample", "", targetSampleRate, 0), Comma,
              Flt("aformat", "stereo", targetSampleRate, 0),
              Named("orig_audio")>> >>
    ELSE <<>>

\* Step 4.2 the original audio of the base video, as a list of 0 or 1 strings
OriginalAudioParts(muteOriginalAudio, info) ==
    IF ~muteOriginalAudio /\ info.hasAudio
    THEN IF ChannelsOr2(info.channels) = 1
         THEN << <<InPad(0, "a"),
                   Flt("aresample", "", targetSampleRate, 0), Comma,
                   Flt("aformat", "mono", targetSampleRate, 0), Comma,
                   Flt("pan", "stereo|c0=c0|c1=c0", 0, 0),
                   Named("orig_audio")>> >>
         ELSE << <<InPad(0, "a"),
                   Flt("aresample", "", targetSampleRate, 0), Comma,
                   Flt("aformat", "stereo", targetSampleRate, 0),
                   Named("orig_audio")>> >>
    ELSE <<>>

\* Step 4.2 whether the loop body reaches "continue" for this track
VideoTrackSkipped(info, videoDuration) ==
    \/ ~info.hasAudio
    \/ MathMin(info.duration, videoDuration - info.start) <= 0

\* A chain that reads the input numbered like the track in the list
VideoAudioFilterByPosition(i, inputIndex, info, videoDuration) ==
    LET startTime         == info.start
        audioDuration     == info.duration
        maxDuration       == videoDuration - startTime
        effectiveDuration == MathMin(audioDuration, maxDuration)
        format == IF ChannelsOr2(info.channels) = 1
                  THEN <<Flt("aresample", "", targetSampleRate, 0), Comma,
                         Flt("aformat", "mono", targetSampleRate, 0), Comma,
                         Flt("pan", "stereo|c0=c0|c1=c0", 0, 0), Comma>>
                  ELSE <<Flt("aresample", "", targetSampleRate, 0), Comma,
                         Flt("aformat", "stereo", targetSampleRate, 0), Comma>>
        head == <<InPad(i + 1, "a")>> \o format
                \o <<Flt("atrim", "", 0, effectiveDuration), Comma,
                     Flt("asetpts", "PTS-STARTPTS", 0, 0), Comma>>
        delayMs == MathRoundMs(startTime)
        delayed == IF startTime > 0
                   THEN head \o <<Flt("adelay", "all=1", delayMs, delayMs), Comma>>
                   ELSE head
        padDuration == videoDuration - effectiveDuration - startTime
        padded == IF padDuration > 0
                  THEN delayed \o <<Flt("apad", "pad_dur", ToFixed3(padDuration), 0)>>
                  ELSE SliceLast(delayed)
    IN  padded \o <<Label("a", i)>>

\* Step 4.2 the filter string of a track that is not skipped; i is the loop
\* index (0-based), inputIndex the value taken from actualInputIndex
VideoAudioFilter(i, inputIndex, info, videoDuration) ==
    LET startTime         == info.start
        audioDuration     == info.duration
        maxDuration       == videoDuration - startTime
        effectiveDuration == MathMin(audioDuration, maxDuration)
        format == IF ChannelsOr2(info.channels) = 1
                  THEN <<Flt("aresample", "", targetSampleRate, 0), Comma,
                         Flt("aformat", "mono", targetSampleRate, 0), Comma,
                         Flt("pan", "stereo|c0=c0|c1=c0", 0, 0), Comma>>
                  ELSE <<Flt("aresample", "", targetSampleRate, 0), Comma,
                         Flt("aformat", "stereo", targetSampleRate, 0), Comma>>
        head == <<InPad(inputIndex, "a")>> \o format
                \o <<Flt("atrim", "", 0, effectiveDuration), Comma,
                     Flt("asetpts", "PTS-STARTPTS", 0, 0), Comma>>
        delayMs == MathRoundMs(startTime)
        delayed == IF startTime > 0
                   THEN head \o <<Flt("adelay", "all=1", delayMs, delayMs), Comma>>
                   ELSE head
        padDuration == videoDuration - effectiveDuration - startTime
        padded == IF padDuration > 0
                  THEN delayed \o <<Flt("apad", "pad_dur", ToFixed3(padDuration), 0)>>
                  ELSE SliceLast(delayed)
    IN  padded \o <<Label("a", i)>>

\* A mix statement that sends a single stream through the mix node too
MixEvenOneStream(labels, videoDuration) ==
    IF Len(labels) = 0
    THEN <<Flt("anullsrc", "stereo", targetSampleRate, videoDuration), Named("outa")>>
    ELSE labels
         \o <<Flt("amix", "duration=longest:dropout_transition=0", Len(labels), 0),
              Named("outa")>>

\* Step 4.3 the mix statement for the surviving labels
VideoMixFilter(labels, videoDuration) ==
    IF Len(labels) = 0
    THEN <<Flt("anullsrc", "stereo", targetSampleRate, videoDuration), Named("outa")>>
    ELSE IF Len(labels) = 1
    THEN <<labels[1], Flt("anull", "", 0, 0), Named("outa")>>
    ELSE labels
         \o <<Flt("amix", "duration=longest:dropout_transition=0", Len(labels), 0),
              Named("outa")>>

\* Step 4.2 the overlay loop from index i (1-based position in infos) on:
\* acc carries audioFilterParts, audioInputLabels, the inputs added to the
\* command and actualInputIndex
RECURSIVE VideoAudioLoop(_, _, _, _)
VideoAudioLoop(i, infos, videoDuration, acc) ==
    IF i > Len(infos) THEN acc
    ELSE IF VideoTrackSkipped(infos[i], videoDuration)
    THEN VideoAudioLoop(i + 1, infos, videoDuration, acc)
    ELSE VideoAudioLoop(i + 1, infos, videoDuration,
            [parts  |-> Append(acc.parts,
                          VideoAudioFilter(i - 1, acc.actualInputIndex, infos[i], videoDuration)),
             labels |-> Append(acc.labels, Label("a", i - 1)),
             inputs |-> Append(acc.inputs, infos[i].path),
             actualInputIndex |-> acc.actualInputIndex + 1])

\* 5.5 the image-based audio loop from index i (1-based) on: acc carries
\* filterParts and audioLabels
RECURSIVE ImageAudioLoop(_, _, _, _, _)
ImageAudioLoop(i, infos, total, audioStartIndex, acc) ==
    IF i > Len(infos) THEN acc
    ELSE IF ImageTrackSkipped(infos[i].start, infos[i].duration, total)
    THEN ImageAudioLoop(i + 1, infos, total, audioStartIndex, acc)
    ELSE ImageAudioLoop(i + 1, infos, total, audioStartIndex,
            [parts  |-> Append(acc.parts,
                          ImageAudioFilter(i - 1, infos[i].start, infos[i].duration,
                                           total, audioStartIndex)),
             labels |-> Append(acc.labels, Label("a", i - 1))])

\* Step 3 of the image-based composer: sum of scene durations (ms) / 1000
RECURSIVE SumDurations(_)
SumDurations(scenes) ==
    IF scenes = <<>> THEN 0
    ELSE Head(scenes).scene_duration + SumDurations(Tail(scenes))
TotalDuration(scenes) == MsToSec(SumDurations(scenes))

\* ------------------------------------------------------------------ state
VARIABLES
    node,             \* which node's execute runs: "image" or "video"
                      \* (MergeSpec: "audioMerge" or "videoMerge")
    continueOnFail,   \* this.continueOnFail()
    itemIndex,        \* loop variable of execute
    pc,               \* position inside execute
    req,              \* parameters of the current item (Step 1)
    totalDuration,    \* totalDuration / videoDuration, in units
    videoInfo,        \* probe result of the base video
    audioInfos,       \* audioInfos, one entry per probed track
    inputFiles,       \* inputFiles / inputs added to the command, in order
    filterParts,      \* filterParts (video-based: filterParts then audioFilterParts)
    audioLabels,      \* audioLabels / audioInputLabels
    videoOutputLabel, \* videoOutputLabel
    ffmpegArgs,       \* arguments of the encoder invocation of this item
    probes,           \* probe calls made for the current item
    spawns,           \* encoder invocations made for the current item
    returnData,       \* returnData
    error,            \* the error the catch block holds, if any
    stderrOutput,     \* execFFmpeg: what the encoder wrote to stderr so far
    exitStatus,       \* the exit status the encoder process closed with, if it has
    inputMode,        \* merge nodes: inputMode ("fromNode" or "manual")
    items,            \* merge nodes: the path parameter of every input item
    fileList,         \* Audio Merge: the temporary concat list file on disk
    streamInfos,      \* Video Merge: streamInfos, one entry per probed file
    targetWidth,      \* Video Merge: targetWidth
    targetHeight      \* Video Merge: targetHeight

vars == <<node, continueOnFail, itemIndex, pc, req, totalDuration,
          videoInfo, audioInfos, inputFiles, filterParts, audioLabels,
          videoOutputLabel, ffmpegArgs, probes, spawns,
          returnData, error, stderrOutput, exitStatus,
          inputMode, items, fileList, streamInfos, targetWidth, targetHeight>>

\* What only the merge nodes use; the composers leave it alone
mergeVars == <<inputMode, items, fileList, streamInfos, targetWidth, targetHeight>>
NoFile == [exists |-> FALSE, content |-> <<>>]
MergeIdle ==
    /\ inputMode = "none"
    /\ items = <<>>
    /\ fileList = NoFile
    /\ streamInfos = <<>>
    /\ targetWidth = 0
    /\ targetHeight = 0

NoLabel == Named("")
NoArgs  == [inputs |-> <<>>, filter_complex |-> <<>>, map |-> <<>>, vcodec |-> ""]
Err(type, subject) == [type |-> type, subject |-> subject]
NoError == Err("none", [kind |-> "none", n |-> 0])
SubtitleFile == [kind |-> "subtitle", n |-> 0]

\* Chunks of output the encoder writes to stderr
StderrLines == {<<"e">>, <<"w">>}

\* Exit status of an encoder process that started and closed
ExitCodes == {0, 1}

Init ==
    /\ node \in {"image", "video"}
    /\ continueOnFail \in BOOLEAN
    /\ itemIndex = 0
    /\ pc = "item"
    /\ req = NoRequest
    /\ totalDuration = 0
    /\ videoInfo = NoVideoInfo
    /\ audioInfos = <<>>
    /\ inputFiles = <<>>
    /\ filterParts = <<>>
    /\ audioLabels = <<>>
    /\ videoOutputLabel = NoLabel
    /\ ffmpegArgs = NoArgs
    /\ probes = 0
    /\ spawns = 0
    /\ returnData = <<>>
    /\ error = NoError
    /\ stderrOutput = <<>>
    /\ exitStatus = {}
    /\ MergeIdle

\* Locals that outlive their iteration: the arrays the filter graph is
\* collected in are kept
KeepArrays ==
    /\ req' = NoRequest
    /\ totalDuration' = 0
    /\ videoInfo' = NoVideoInfo
    /\ audioInfos' = <<>>
    /\ UNCHANGED <<inputFiles, filterParts, audioLabels>>
    /\ videoOutputLabel' = NoLabel
    /\ ffmpegArgs' = NoArgs
    /\ probes' = 0
    /\ spawns' = 0
    /\ stderrOutput' = <<>>
    /\ exitStatus' = {}

\* The locals of one loop iteration are block-scoped: every iteration
\* declares them anew, so nothing of an item survives into the next; the
\* per-item call counters start over with them
DiscardLocals ==
    /\ req' = NoRequest
    /\ totalDuration' = 0
    /\ videoInfo' = NoVideoInfo
    /\ audioInfos' = <<>>
    /\ inputFiles' = <<>>
    /\ filterParts' = <<>>
    /\ audioLabels' = <<>>
    /\ videoOutputLabel' = NoLabel
    /\ ffmpegArgs' = NoArgs
    /\ probes' = 0
    /\ spawns' = 0
    /\ stderrOutput' = <<>>
    /\ exitStatus' = {}

\* throw inside the try block of an item: control passes to the catch block
\* with the error.  What the item had done by then stays as it is until the
\* catch block is through (req, probes and audioInfos are left to the step
\* that throws).
Throw(err) ==
    /\ error' = err
    /\ pc' = "catch"
    /\ UNCHANGED <<returnData, itemIndex, totalDuration, videoInfo,
                   inputFiles, filterParts, audioLabels,
                   videoOutputLabel, ffmpegArgs, spawns, stderrOutput, exitStatus>>

\* ---------------------------------------------------------------- actions
\* Step 2: the error validation throws for request r of node n, NoError
\* when every check passes.  The checks run in the order scenes (or base
\* video), tracks, subtitle existence, subtitle format, and the first one
\* that fails throws.
Least(S) == CHOOSE i \in S : \A j \in S : i <= j
\* Validation that looks at the subtitle only
ValidateSubtitleOnly(n, r) ==
    IF HasSubtitle(r.subtitlePath) /\ ~SubtitleExists(r.subtitlePath)
      THEN Err("SubtitleMissing", SubtitleFile)
    ELSE IF HasSubtitle(r.subtitlePath) /\ ~SubtitleFormatOk(r.subtitlePath)
      THEN Err("UnsupportedSubtitle",
               [ext |-> ToLowerCase(ExtName(r.subtitlePath)),
                allowed |-> supportedFormats])
    ELSE NoError

Validate(n, r) ==
    LET badScenes == {i \in DOMAIN r.sceneList : ~Exists(r.sceneList[i].image_filepath)}
        badTracks == {i \in DOMAIN r.audioList : ~Exists(r.audioList[i].path)}
    IN  IF n = "image" /\ Len(r.sceneList) = 0
          THEN Err("EmptySceneList", [kind |-> "sceneList", n |-> 0])
        ELSE IF n = "image" /\ badScenes # {}
          THEN Err("ImageMissing", r.sceneList[Least(badScenes)].image_filepath)
        ELSE IF n = "video" /\ ~Exists(r.videoPath)
          THEN Err("VideoMissing", r.videoPath)
        ELSE IF badTracks # {}
          THEN Err("AudioMissing", r.audioList[Least(badTracks)].path)
        ELSE IF HasSubtitle(r.subtitlePath) /\ ~SubtitleExists(r.subtitlePath)
          THEN Err("SubtitleMissing", SubtitleFile)
        ELSE IF HasSubtitle(r.subtitlePath) /\ ~SubtitleFormatOk(r.subtitlePath)
          THEN Err("UnsupportedSubtitle",
                   [ext |-> ToLowerCase(ExtName(r.subtitlePath)),
                    allowed |-> supportedFormats])
        ELSE NoError

\* The requests an item can carry, per node, split into those that pass
\* validation and those that do not
ImageAccepted == {r \in ImageRequests : Validate("image", r) = NoError}
VideoAccepted == {r \in VideoRequests : Validate("video", r) = NoError}
ImageRejected == ImageRequests \ ImageAccepted
VideoRejected == VideoRequests \ VideoAccepted

\* Steps 1-3, synchronous code up to the first probe: read the parameters
\* of item itemIndex, validate them, compute the total duration (image-based).
\* The item carries any request; validation passes or throws one of the
\* errors that request can end with.  items.length is any number up to
\* MaxItems: after each item the loop goes on or ends (Return).
StartItem ==
    /\ pc = "item"
    /\ itemIndex < MaxItems
    /\ \/ /\ \E r \in (IF node = "image" THEN ImageAccepted ELSE VideoAccepted) :
                /\ req' = r
                /\ totalDuration' = IF node = "image" THEN TotalDuration(r.sceneList)
                                    ELSE totalDuration
          /\ pc' = IF node = "image" THEN "probe" ELSE "probeVideo"
          /\ UNCHANGED <<itemIndex, videoInfo, audioInfos, inputFiles,
                         filterParts, audioLabels, videoOutputLabel,
                         ffmpegArgs, returnData, probes, spawns, error,
                         stderrOutput, exitStatus>>
       \/ \E r \in (IF node = "image" THEN ImageRejected ELSE VideoRejected) :
             /\ req' = r
             /\ UNCHANGED <<probes, audioInfos>>
             /\ Throw(Validate(node, r))
    /\ UNCHANGED <<node, continueOnFail>>
    /\ UNCHANGED mergeVars

\* The probe of the base video with its result taken as it comes
ProbeVideoUnchecked ==
    /\ pc = "probeVideo"
    /\ videoInfo' = VideoMediaOf(req.videoPath)
    /\ pc' = "probe"
    /\ probes' = probes + 1
    /\ UNCHANGED <<node, continueOnFail, itemIndex, req, totalDuration, audioInfos,
                   inputFiles, filterParts, audioLabels, videoOutputLabel,
                   ffmpegArgs, spawns, returnData, error,
                   stderrOutput, exitStatus>>
    /\ UNCHANGED mergeVars

\* Step 3 of the video-based composer: probe the base video
ProbeVideo ==
    /\ pc = "probeVideo"
    /\ IF ProbeFails(req.videoPath)
       THEN /\ probes' = probes + 1
            /\ UNCHANGED <<req, audioInfos>>
            /\ Throw(Err("ProbeFailed", req.videoPath))
       ELSE LET m == VideoMediaOf(req.videoPath) IN
             IF m.hasVideo
             THEN /\ videoInfo' = m
                  /\ pc' = "probe"
                  /\ probes' = probes + 1
                  /\ spawns' = spawns
                  /\ UNCHANGED <<itemIndex, req, totalDuration, audioInfos,
                                 inputFiles, filterParts, audioLabels, videoOutputLabel,
                                 ffmpegArgs, returnData, error,
                                 stderrOutput, exitStatus>>
             ELSE /\ probes' = probes + 1
                  /\ UNCHANGED <<req, audioInfos>>
                  /\ Throw(Err("NoVideoStream", req.videoPath))
    /\ UNCHANGED <<node, continueOnFail>>
    /\ UNCHANGED mergeVars

\* What each composer keeps of a track's probe result
ImageAudioInfo(track, m) ==
    [path |-> track.path, start |-> track.start, duration |-> m.duration]
VideoAudioInfo(track, m) ==
    [path |-> track.path, start |-> track.start, duration |-> m.duration,
     hasAudio |-> m.hasAudio, channels |-> m.channels]

\* The probe results of all tracks of request r, as node n keeps them
AudioInfosOf(n, r) ==
    [i \in DOMAIN r.audioList |->
        LET track == r.audioList[i]
            m == MediaOf(track.path)
        IN  IF n = "image" THEN ImageAudioInfo(track, m)
            ELSE VideoAudioInfo(track, m)]

\* A probe loop that goes on to Step 5 after the first track
ProbeFirstTrackOnly ==
    /\ pc = "probe"
    /\ audioInfos' = AudioInfosOf(node, req)
    /\ probes' = probes + MathMin(1, Len(req.audioList))
    /\ pc' = "build"
    /\ UNCHANGED <<node, continueOnFail, itemIndex, req, totalDuration, videoInfo,
                   spawns, inputFiles, filterParts, audioLabels, videoOutputLabel,
                   ffmpegArgs, returnData, error, stderrOutput, exitStatus>>
    /\ UNCHANGED mergeVars

\* Step 4 (video-based: Step 3): the loop that probes every track in turn.
\* Either every probe answers, or the probe of the first track whose file
\* cannot be read fails, after those of the tracks before it were made.
ProbeAudio ==
    /\ pc = "probe"
    /\ LET failing == {i \in DOMAIN req.audioList : ProbeFails(req.audioList[i].path)}
           infos == AudioInfosOf(node, req)
       IN  IF failing = {}
           THEN /\ audioInfos' = infos
                /\ probes' = probes + Len(req.audioList)
                /\ pc' = "build"
                /\ UNCHANGED <<itemIndex, req, totalDuration, videoInfo, spawns,
                               inputFiles, filterParts, audioLabels, videoOutputLabel,
                               ffmpegArgs, returnData, error,
                               stderrOutput, exitStatus>>
           ELSE /\ audioInfos' = SubSeq(infos, 1, Least(failing) - 1)
                /\ probes' = probes + Least(failing)
                /\ req' = req
                /\ Throw(Err("ProbeFailed", req.audioList[Least(failing)].path))
    /\ UNCHANGED <<node, continueOnFail>>
    /\ UNCHANGED mergeVars

\* Image-based 5.1-5.4.1: inputs, scene filters, concat, subtitle or copy.
\* Video-based Step 4 up to 4.1: duration, base input, subtitle statement.
\* Pushes onto the arrays as they stand (files, parts).
BuildVideo(r, vinfo, total, files, parts) ==
    IF node = "image"
    THEN [inputFiles |-> files
                \o [i \in DOMAIN r.sceneList |-> r.sceneList[i].image_filepath]
                \o [i \in DOMAIN r.audioList |-> r.audioList[i].path],
          filterParts |-> parts
                \o [i \in DOMAIN r.sceneList |->
                      SceneFilter(i - 1, r.sceneList[i].scene_duration, r.enableKenBurns)]
                \o <<ConcatFilter(Len(r.sceneList))>>
                \o <<ImageSubtitleFilter(r.subtitlePath)>>,
          videoOutputLabel |-> Named("outv"),
          totalDuration |-> total]
    ELSE [inputFiles |-> Append(files, r.videoPath),
          filterParts |-> parts \o VideoSubtitleParts(r.subtitlePath),
          videoOutputLabel |-> VideoOutputLabel(r.subtitlePath),
          totalDuration |-> vinfo.duration]

\* Image-based 5.5: the audio loop.  Video-based Step 4.2: the original
\* audio, then the overlay loop.  v is the result of BuildVideo.
BuildAudio(r, vinfo, infos, v, labels) ==
    IF node = "image"
    THEN LET a == ImageAudioLoop(1, infos, v.totalDuration, Len(r.sceneList),
                                 [parts |-> <<>>, labels |-> labels])
         IN  [inputFiles |-> v.inputFiles,
              filterParts |-> v.filterParts \o a.parts,
              audioLabels |-> a.labels]
    ELSE LET orig == OriginalAudioParts(r.muteOriginalAudio, vinfo)
             a == VideoAudioLoop(1, infos, v.totalDuration,
                     [parts  |-> orig,
                      labels |-> labels
                                 \o (IF orig = <<>> THEN <<>> ELSE <<Named("orig_audio")>>),
                      inputs |-> v.inputFiles,
                      actualInputIndex |-> 1])
         IN  [inputFiles |-> a.inputs,
              filterParts |-> v.filterParts \o a.parts,
              audioLabels |-> a.labels]

\* Image-based 5.6, video-based Step 4.3: the mix statement
MixAudio(labels, total) ==
    IF node = "image" THEN ImageMixFilter(labels, total)
    ELSE VideoMixFilter(labels, total)

\* A codec option that copies the video stream of every video-based request
CopyUnlessImage(r) == IF node = "image" THEN "libx264" ELSE "copy"

\* The video codec option: the image-based composer always encodes, the
\* video-based one copies the stream unless a subtitle is burned in
VideoCodec(r) ==
    IF node = "image" \/ HasSubtitle(r.subtitlePath) THEN "libx264" ELSE "copy"

\* Steps 5 and 6 (video-based: 4 and 5) as a function of the request, the
\* probe results and the arrays as they stand: the filter graph, joined, and
\* the encoder arguments
Compose(r, vinfo, infos, total, files, parts, labels) ==
    LET v == BuildVideo(r, vinfo, total, files, parts)
        a == BuildAudio(r, vinfo, infos, v, labels)
        all == Append(a.filterParts, MixAudio(a.audioLabels, v.totalDuration))
    IN  [totalDuration    |-> v.totalDuration,
         videoOutputLabel |-> v.videoOutputLabel,
         inputFiles       |-> a.inputFiles,
         audioLabels      |-> a.audioLabels,
         filterParts      |-> all,
         ffmpegArgs       |-> [inputs |-> a.inputFiles,
                               filter_complex |-> JoinParts(all),
                               map |-> <<v.videoOutputLabel, Named("outa")>>,
                               vcodec |-> VideoCodec(r)]]

\* Steps 5 and 6 (video-based: 4 and 5), synchronous code from the end of
\* the probe loop to the start of the encoder: build the filter graph, join
\* it, assemble the arguments and start the encoder
BuildAndRunFFmpeg ==
    /\ pc = "build"
    /\ LET c == Compose(req, videoInfo, audioInfos, totalDuration,
                        inputFiles, filterParts, audioLabels)
       IN  /\ totalDuration' = c.totalDuration
           /\ videoOutputLabel' = c.videoOutputLabel
           /\ inputFiles' = c.inputFiles
           /\ audioLabels' = c.audioLabels
           /\ filterParts' = c.filterParts
           /\ ffmpegArgs' = c.ffmpegArgs
    /\ spawns' = spawns + 1
    /\ pc' = "encoding"
    /\ UNCHANGED <<node, continueOnFail, itemIndex, req, videoInfo, audioInfos,
                   probes, returnData, error,
                   stderrOutput, exitStatus>>
    /\ UNCHANGED mergeVars

\* execFFmpeg, stderr 'data' handler: the chunk is appended to what was
\* collected so far
FFmpegStderr ==
    /\ pc = "encoding"
    /\ Len(stderrOutput) < MaxStderr
    /\ \E line \in StderrLines : stderrOutput' = stderrOutput \o line
    /\ UNCHANGED <<node, continueOnFail, itemIndex, pc, req, totalDuration,
                   videoInfo, audioInfos, inputFiles, filterParts, audioLabels,
                   videoOutputLabel, ffmpegArgs, probes, spawns, returnData,
                   error, exitStatus>>
    /\ UNCHANGED mergeVars

\* execFFmpeg, 'error' handler: the process could not be started; the
\* promise rejects with the reason and nothing else
FFmpegError ==
    /\ pc = "encoding"
    /\ UNCHANGED <<req, probes, audioInfos>>
    /\ Throw(Err("StartFailed", [kind |-> "start", n |-> 0]))
    /\ UNCHANGED <<node, continueOnFail>>
    /\ UNCHANGED mergeVars

\* A close handler for which every exit status is a success
ResolveOnAnyStatus ==
    /\ pc = "encoding"
    /\ \E code \in ExitCodes : exitStatus' = {code}
    /\ pc' = "resolved"
    /\ UNCHANGED <<node, continueOnFail, itemIndex, req, totalDuration,
                   videoInfo, audioInfos, inputFiles, filterParts, audioLabels,
                   videoOutputLabel, ffmpegArgs, probes, spawns, returnData,
                   error, stderrOutput>>
    /\ UNCHANGED mergeVars

\* execFFmpeg, 'close' handler: exit status 0 resolves the promise, any
\* other status rejects it with the status and the collected stderr
FFmpegClose ==
    /\ pc = "encoding"
    /\ \E code \in ExitCodes :
          /\ exitStatus' = {code}
          /\ IF code = 0
             THEN /\ pc' = "resolved"
                  /\ error' = error
             ELSE /\ pc' = "catch"
                  /\ error' = Err("EncodeFailed", [code |-> code, stderr |-> stderrOutput])
    /\ UNCHANGED <<node, continueOnFail, itemIndex, req, totalDuration,
                   videoInfo, audioInfos, inputFiles, filterParts, audioLabels,
                   videoOutputLabel, ffmpegArgs, probes, spawns, returnData,
                   stderrOutput>>
    /\ UNCHANGED mergeVars

\* Step 7 (video-based: Step 6), after the await of the encoder: the success
\* result is pushed and the loop goes on with the next item
PushResult ==
    /\ pc = "resolved"
    /\ returnData' = Append(returnData, [ok |-> TRUE, pairedItem |-> itemIndex])
    /\ itemIndex' = itemIndex + 1
    /\ pc' = "item"
    /\ error' = error
    /\ DiscardLocals
    /\ UNCHANGED <<node, continueOnFail>>
    /\ UNCHANGED mergeVars

\* catch (error): with continueOnFail an error item is pushed and the loop
\* continues with the next item; otherwise the error is thrown out of execute
Catch ==
    /\ pc = "catch"
    /\ IF continueOnFail
       THEN /\ returnData' = Append(returnData, [ok |-> FALSE, pairedItem |-> itemIndex])
            /\ itemIndex' = itemIndex + 1
            /\ pc' = "item"
            /\ error' = NoError
            /\ DiscardLocals
       ELSE /\ pc' = "thrown"
            /\ UNCHANGED <<returnData, itemIndex, error, req, totalDuration,
                           videoInfo, audioInfos, inputFiles, filterParts,
                           audioLabels, videoOutputLabel, ffmpegArgs, probes, spawns,
                           stderrOutput, exitStatus>>
    /\ UNCHANGED <<node, continueOnFail>>
    /\ UNCHANGED mergeVars

\* return [returnData]
Return ==
    /\ pc = "item"
    /\ pc' = "returned"
    /\ UNCHANGED <<node, continueOnFail, itemIndex, req, totalDuration,
                   videoInfo, audioInfos, inputFiles, filterParts,
                   audioLabels, videoOutputLabel, ffmpegArgs,
                   probes, spawns, returnData, error,
                   stderrOutput, exitStatus>>
    /\ UNCHANGED mergeVars

\* The steps of execute.  The stderr 'data' handler changes nothing but
\* stderrOutput, which only the rejection message of the close handler
\* reads: Spec follows the runs in which the encoder writes nothing,
\* EncoderSpec (below) follows its output.  The video-based composer runs
\* the encoder through fluent-ffmpeg, whose 'end' and 'error' events take
\* the place of FFmpegClose and FFmpegError.
Next ==
    \/ StartItem
    \/ ProbeVideo
    \/ ProbeAudio
    \/ BuildAndRunFFmpeg
    \/ FFmpegError
    \/ FFmpegClose
    \/ PushResult
    \/ Catch
    \/ Return

Spec == Init /\ [][Next]_vars

\* ------------------------------------------------------- reading a graph
\* The graph handed to the encoder and the request it was built for
Graph    == ffmpegArgs.filter_complex
Encoding == pc = "encoding"

Last(str) == str[Len(str)]
Abs(x) == IF x >= 0 THEN x ELSE 0 - x

IsLabel(t)  == t.k = "label"
IsSource(t) == t.k \in {"label", "inpad"}
IsNode(t)   == t.k \notin {"label", "inpad", ",", ";", "stream"}

\* The filter nodes of a statement, in order
Nodes(st) == SelectSeq(st, IsNode)

\* The positions of the nodes of the given kind in a statement
NodesOfKind(st, kind) == {k \in DOMAIN st : st[k].k = kind}

\* The labels and input pads a statement reads: its leading tokens
RECURSIVE LeadingSources(_, _)
LeadingSources(st, i) ==
    IF i > Len(st) \/ ~IsSource(st[i]) THEN i - 1 ELSE LeadingSources(st, i + 1)
Reads(st) == SubSeq(st, 1, LeadingSources(st, 1))
\* A statement is its sources (a generator has none), then nodes separated
\* by ",", then one output label
WellFormed(st) ==
    /\ Len(st) >= 2
    /\ IsLabel(Last(st))
    /\ LET n == LeadingSources(st, 1) IN
         /\ n < Len(st) - 1
         /\ \A i \in (n + 1)..(Len(st) - 1) :
               IF (i - n) % 2 = 1 THEN IsNode(st[i]) ELSE st[i] = Comma
         /\ (Len(st) - 1 - n) % 2 = 1

\* The statements of the current graph are the pieces between ";".  A
\* statement is named by the position of its last token.
IsStmtEnd(e) == e \in DOMAIN Graph /\ (e = Len(Graph) \/ Graph[e + 1] = Semi)
StmtStart(e) ==
    LET semis == {k \in 1..(e - 1) : Graph[k] = Semi}
    IN  IF semis = {} THEN 1
        ELSE 1 + CHOOSE k \in semis : \A j \in semis : j <= k
Stmt(e) == SubSeq(Graph, StmtStart(e), e)
\* The statement before statement e, when there is one
HasPrev(e) == StmtStart(e) > 2
Prev(e)    == Stmt(StmtStart(e) - 2)
\* The statements whose output is the given label
Defining(lab) == {e \in DOMAIN Graph : Graph[e] = lab /\ IsStmtEnd(e)}
\* The statements that read the given label
Reading(lab) ==
    {e \in DOMAIN Graph :
        /\ IsStmtEnd(e)
        /\ \E k \in StmtStart(e)..(e - 1) :
              /\ Graph[k] = lab
              /\ \A j \in StmtStart(e)..k : IsSource(Graph[j])}

\* ---------------------------------------------- the tracks of a request
\* Track i (1-based) of the current request, in the vocabulary of the
\* timeline: seconds are units
Tracks == DOMAIN req.audioList
StartOffsetSec(i) ==
    IF node = "image" THEN MsToSec(req.audioList[i].start) ELSE req.audioList[i].start
ProbedDurationSec(i) == MediaOf(req.audioList[i].path).duration
HasAudioStream(i)    == MediaOf(req.audioList[i].path).hasAudio
ProbedChannels(i)    == MediaOf(req.audioList[i].path).channels
EffectiveDurationSec(i) ==
    MathMin(ProbedDurationSec(i), totalDuration - StartOffsetSec(i))
PadDurationSec(i) == totalDuration - EffectiveDurationSec(i) - StartOffsetSec(i)
TrackLabel(i) == Label("a", i - 1)
\* n (milliseconds, thousandths of a second) is u rounded
IsRounded(n, u) == 2 * Abs(n * Sub - u) <= Sub

\* The chain statement of track i: it reads one audio pad, the pad of the
\* track's file among the encoder inputs, and defines the track's label
IsChainOf(st, i) ==
    /\ WellFormed(st)
    /\ Last(st) = TrackLabel(i)
    /\ Len(Reads(st)) = 1
    /\ st[1].k = "inpad" /\ st[1].s = "a"
    /\ st[1].a + 1 \in DOMAIN ffmpegArgs.inputs
    /\ ffmpegArgs.inputs[st[1].a + 1] = req.audioList[i].path
HasChain(i) ==
    LET d == Defining(TrackLabel(i))
    IN  Cardinality(d) = 1 /\ \A k \in d : IsChainOf(Stmt(k), i)
ChainOf(i) == Stmt(CHOOSE k \in Defining(TrackLabel(i)) : TRUE)
\* Track i is an input of the statement that produces the final audio
IsMixInput(i) ==
    \E k \in Reading(TrackLabel(i)) :
        LET st == Stmt(k)
        IN  /\ Last(st) \in {Named("outa"), Named("mixed")}
            /\ Nodes(st)[1].k \in {"amix", "anull"}
\* Track i occurs nowhere in the graph
Absent(i) ==
    /\ \A k \in DOMAIN Graph : Graph[k] # TrackLabel(i)
    /\ \A k \in DOMAIN audioLabels : audioLabels[k] # TrackLabel(i)
    /\ node = "image" =>
          \A k \in DOMAIN Graph : Graph[k] # InPad(Len(req.sceneList) + i - 1, "a")
    /\ node = "video" =>
          Cardinality({k \in DOMAIN ffmpegArgs.inputs :
                          ffmpegArgs.inputs[k] = req.audioList[i].path})
          = Cardinality({j \in Tracks : /\ req.audioList[j].path = req.audioList[i].path
                                        /\ HasAudioStream(j)
                                        /\ EffectiveDurationSec(j) > 0})

\* ----------------------------------------------------------------- claims
\* C1: an overlay track that has an audio stream gets a chain statement and
\* is an input of the mix exactly when min(probedDurationSec,
\* totalDurationSec - startOffsetSec) > 0; otherwise it occurs nowhere in the
\* graph, and the encoder is started all the same (no error was raised).
C1_TrackSurvivesIffEffectiveDurationPositive ==
    Encoding =>
        /\ error = NoError
        /\ \A i \in Tracks :
              HasAudioStream(i) =>
                 IF EffectiveDurationSec(i) > 0
                 THEN HasChain(i) /\ IsMixInput(i)
                 ELSE Absent(i) /\ ~IsMixInput(i)

\* C1 witness: the encoder is started for a request with a track starting at
\* or after the end, a track probed with duration 0 or a surviving track
C1_Witness ==
    /\ Encoding
    /\ \E i, j \in Tracks :
          /\ HasAudioStream(i) /\ EffectiveDurationSec(i) <= 0
          /\ StartOffsetSec(i) >= totalDuration \/ ProbedDurationSec(i) = 0
          /\ HasAudioStream(j) /\ EffectiveDurationSec(j) > 0 /\ j > i


\* The streams that survive: the labels collected for the mix
Surviving == audioLabels
\* st is a mix of exactly the surviving labels: inputs=N, duration=longest,
\* dropout_transition=0
IsMixOfSurviving(st) ==
    /\ WellFormed(st)
    /\ Reads(st) = Surviving
    /\ Len(Nodes(st)) = 1
    /\ Nodes(st)[1].k = "amix"
    /\ Nodes(st)[1].a = Len(Surviving)
    /\ Nodes(st)[1].s \in {"duration=longest:dropout_transition=0",
                           "duration=longest:dropout_transition=0:normalize=0"}
\* st applies a gain to the output of the statement before it
IsGainAfter(st, before) ==
    /\ WellFormed(st)
    /\ Reads(st) = <<Last(before)>>
    /\ Len(Nodes(st)) = 1
    /\ Nodes(st)[1].k = "volume"

\* C2: whenever more than one audio stream survives, in either composer,
\* the final audio output [outa] is defined by a gain statement that directly
\* follows a mix statement over exactly the surviving labels.
C2_MixIsFollowedByGain ==
    Encoding /\ Len(Surviving) > 1 =>
        \E k \in Defining(Named("outa")) :
            /\ HasPrev(k)
            /\ IsMixOfSurviving(Prev(k))
            /\ IsGainAfter(Stmt(k), Prev(k))

\* Track i has a chain with a padding node of the rounded pad duration
HasPadding(i) ==
    /\ HasChain(i)
    /\ LET st == ChainOf(i)
       IN  \E k \in NodesOfKind(st, "apad") : IsRounded(st[k].a, PadDurationSec(i))

\* C3 as stated: every track with startOffsetSec + probedDurationSec <
\* totalDurationSec has a padding node in the graph, of duration
\* totalDurationSec - effectiveDurationSec - startOffsetSec rounded to 3
\* decimals.
C3_EveryShortTrackIsPadded ==
    Encoding =>
        \A i \in Tracks :
            StartOffsetSec(i) + ProbedDurationSec(i) < totalDuration => HasPadding(i)

\* C3 amended: every track that has an audio stream and a positive probed
\* duration, with startOffsetSec + probedDurationSec < totalDurationSec, has
\* exactly one padding node in its chain, of duration totalDurationSec -
\* effectiveDurationSec - startOffsetSec rounded to 3 decimals.
C3_EveryShortSurvivingTrackIsPadded ==
    Encoding =>
        \A i \in Tracks :
            /\ HasAudioStream(i)
            /\ ProbedDurationSec(i) > 0
            /\ StartOffsetSec(i) + ProbedDurationSec(i) < totalDuration
            => /\ HasPadding(i)
               /\ Cardinality(NodesOfKind(ChainOf(i), "apad")) = 1

\* C3 witness: a track that ends before the timeline does, whose padding is
\* not a whole number of milliseconds before rounding
C3_Witness ==
    /\ Encoding
    /\ \E i \in Tracks :
          /\ HasAudioStream(i) /\ ProbedDurationSec(i) > 0
          /\ StartOffsetSec(i) + ProbedDurationSec(i) < totalDuration
          /\ PadDurationSec(i) % Sub # 0
          /\ HasPadding(i)


\* C4: the graph and the output mapping designate exactly one video output
\* and one audio output: -map names two outputs, the second is [outa], [outa]
\* is defined by exactly one statement whether 0, 1 or more streams survive,
\* and the mapped video output is either the base video stream itself or a
\* label defined by exactly one statement; in image-based composition that
\* label is [outv], with or without a subtitle.  No statement reads an output.
C4_OneVideoAndOneAudioOutput ==
    Encoding =>
        /\ Len(ffmpegArgs.map) = 2
        /\ ffmpegArgs.map[2] = Named("outa")
        /\ Cardinality(Defining(Named("outa"))) = 1
        /\ \A k \in Defining(Named("outa")) : WellFormed(Stmt(k))
        /\ Reading(Named("outa")) = {}
        /\ IF node = "image" \/ HasSubtitle(req.subtitlePath)
           THEN /\ ffmpegArgs.map[1] = Named("outv")
                /\ Cardinality(Defining(Named("outv"))) = 1
                /\ \A k \in Defining(Named("outv")) : WellFormed(Stmt(k))
                /\ Reading(Named("outv")) = {}
           ELSE /\ ffmpegArgs.map[1] = Tok("stream", "v", 0, 0, <<>>)
                /\ Defining(Named("outv")) = {}

\* C4 witness: an image-based request without subtitle and with two
\* surviving streams reaches the encoder
C4_Witness ==
    /\ Encoding
    /\ node = "image"
    /\ ~HasSubtitle(req.subtitlePath)
    /\ Len(Surviving) = 2

\* C5: when no audio stream survives, [outa] is defined by a statement that
\* reads nothing and consists of one silent stereo source at the target
\* sample rate whose duration is exactly totalDurationSec: the sum of the
\* scene durations / 1000, or the probed duration of the base video.
C5_SilenceWhenNothingSurvives ==
    Encoding /\ Len(Surviving) = 0 =>
        /\ totalDuration = (IF node = "image"
                            THEN TotalDuration(req.sceneList)
                            ELSE VideoMediaOf(req.videoPath).duration)
        /\ \A k \in Defining(Named("outa")) :
              /\ Stmt(k) = <<Flt("anullsrc", "stereo", targetSampleRate, totalDuration),
                             Named("outa")>>
        /\ Defining(Named("outa")) # {}
        /\ \A k \in DOMAIN Graph : Graph[k].k \notin {"amix", "anull", "volume"}

\* C5 witnesses: nothing survives although tracks were supplied, in the
\* image-based composer; nothing survives in the video-based composer whose
\* base video has an audio stream
C5_Witness ==
    /\ Encoding
    /\ Len(Surviving) = 0
    /\ \/ node = "image" /\ Len(req.audioList) > 0
       \/ node = "video" /\ videoInfo.hasAudio /\ Len(req.audioList) > 0

\* C6: when exactly one audio stream survives, [outa] is defined by that
\* stream's label routed through a single identity node, and the graph holds
\* no mix node and no volume node.
C6_SingleStreamPassesThrough ==
    Encoding /\ Len(Surviving) = 1 =>
        /\ \A k \in Defining(Named("outa")) :
              Stmt(k) = <<Surviving[1], Flt("anull", "", 0, 0), Named("outa")>>
        /\ Defining(Named("outa")) # {}
        /\ Cardinality(Defining(Surviving[1])) = 1
        /\ \A k \in DOMAIN Graph : Graph[k].k \notin {"amix", "volume", "anullsrc"}

\* C6 witness: the one surviving stream is an overlay track with another
\* track skipped, or the original audio of the base video
C6_Witness ==
    /\ Encoding
    /\ Len(Surviving) = 1
    /\ Len(req.audioList) = 2
    /\ node = "video" => Surviving[1] = Named("orig_audio")


\* C7: for every surviving track, a delay node is in its chain exactly when
\* its start offset is > 0; the node delays all channels (all=1) by one
\* amount, round(startOffsetSec * 1000) milliseconds, which in image-based
\* composition is the audio_starttime supplied.
C7_DelayIffPositiveStart ==
    Encoding =>
        \A i \in Tracks :
            HasAudioStream(i) /\ EffectiveDurationSec(i) > 0 =>
               LET st     == ChainOf(i)
                   delays == NodesOfKind(st, "adelay")
               IN
               /\ HasChain(i)
               /\ Cardinality(delays) = (IF StartOffsetSec(i) > 0 THEN 1 ELSE 0)
               /\ \A k \in delays :
                     /\ st[k].s = "all=1"
                     /\ st[k].a = st[k].b
                     /\ IsRounded(st[k].a, StartOffsetSec(i))
                     /\ node = "image" => st[k].a = req.audioList[i].start

\* C7 witnesses: a surviving track with a start offset that is not a whole
\* number of milliseconds (video-based), one with a whole number
\* (image-based), each next to a surviving track starting at or before 0
C7_Witness ==
    /\ Encoding
    /\ \E i, j \in Tracks :
          /\ HasAudioStream(i) /\ EffectiveDurationSec(i) > 0
          /\ StartOffsetSec(i) > 0
          /\ node = "video" => StartOffsetSec(i) % Sub # 0
          /\ HasAudioStream(j) /\ EffectiveDurationSec(j) > 0
          /\ StartOffsetSec(j) <= 0

\* C8: for every surviving track, a padding node is the last node of its
\* chain exactly when padDurationSec = totalDurationSec -
\* effectiveDurationSec - startOffsetSec is > 0, sized to that value rounded
\* to three decimals; otherwise the chain has no padding node and ends with
\* the timestamp-reset node or the delay node.  Either way the last node is
\* directly followed by the output label: no separator dangles.
C8_PadIsLastIffPositive ==
    Encoding =>
        \A i \in Tracks :
            HasAudioStream(i) /\ EffectiveDurationSec(i) > 0 =>
               LET st   == ChainOf(i)
                   last == st[Len(st) - 1]
               IN
               /\ HasChain(i)
               /\ IsNode(last)
               /\ IF PadDurationSec(i) > 0
                  THEN /\ last.k = "apad"
                       /\ IsRounded(last.a, PadDurationSec(i))
                       /\ NodesOfKind(st, "apad") = {Len(st) - 1}
                  ELSE /\ NodesOfKind(st, "apad") = {}
                       /\ last.k = (IF StartOffsetSec(i) > 0 THEN "adelay" ELSE "asetpts")

\* C8 witnesses: one request with a padded track and a track without
\* padding, the latter ending with the delay node (image-based) or the
\* timestamp-reset node (video-based)
C8_Witness ==
    /\ Encoding
    /\ \E i, j \in Tracks :
          /\ HasAudioStream(i) /\ EffectiveDurationSec(i) > 0 /\ PadDurationSec(i) > 0
          /\ HasAudioStream(j) /\ EffectiveDurationSec(j) > 0 /\ PadDurationSec(j) <= 0
          /\ node = "image" => StartOffsetSec(j) > 0
          /\ node = "video" => StartOffsetSec(j) = 0


\* st brings a source probed with the given channel count to stereo at the
\* target sample rate: a mono source by duplicating its channel to both
\* stereo channels, any other by a stereo layout
IsNormalised(st, channels) ==
    /\ \E k \in NodesOfKind(st, "aresample") : st[k].a = targetSampleRate
    /\ \E k \in NodesOfKind(st, "aformat") : st[k].a = targetSampleRate
    /\ IF channels = 1
       THEN \E k \in NodesOfKind(st, "pan") : st[k].s = "stereo|c0=c0|c1=c0"
       ELSE /\ \E k \in NodesOfKind(st, "aformat") : st[k].s = "stereo"
            /\ NodesOfKind(st, "pan") = {}

\* C9: every audio source that enters the graph, in either composer (each
\* surviving overlay track and the original audio of the base video), is
\* resampled to the target rate; a source probed as mono gets its channel
\* duplicated to both stereo channels, every other source a stereo layout.
C9_EverySourceIsNormalised ==
    Encoding =>
        /\ \A i \in Tracks :
              HasAudioStream(i) /\ EffectiveDurationSec(i) > 0 =>
                 HasChain(i) /\ IsNormalised(ChainOf(i), ProbedChannels(i))
        /\ \A k \in Defining(Named("orig_audio")) :
              IsNormalised(Stmt(k), VideoMediaOf(req.videoPath).channels)

\* What the probes report for the files of a request
ProbedTracks(r) ==
    [i \in DOMAIN r.audioList |->
        IF node = "image" THEN ImageAudioInfo(r.audioList[i], MediaOf(r.audioList[i].path))
        ELSE VideoAudioInfo(r.audioList[i], MediaOf(r.audioList[i].path))]
ProbedVideo(r) == IF node = "image" THEN NoVideoInfo ELSE VideoMediaOf(r.videoPath)
\* The encoder arguments a request yields as the first item of a fresh
\* execution
FirstCompile(r) ==
    Compose(r, ProbedVideo(r), ProbedTracks(r),
            IF node = "image" THEN TotalDuration(r.sceneList) ELSE 0,
            <<>>, <<>>, <<>>).ffmpegArgs

\* C10: the graph text, the encoder input list and the output mapping of a
\* request are a function of the request and its probe results alone: they
\* are the ones the same request (same scenes, tracks, probed durations and
\* channel counts, subtitle path and flags) yields as the first item of a
\* fresh execution, whatever was compiled, failed or succeeded before it.
\* Two compilations of one request are therefore identical.
C10_CompilationIsDeterministic ==
    Encoding => ffmpegArgs = FirstCompile(req)

\* C10 witness: a request with a subtitle and two surviving streams is
\* compiled as a later item of an execution, after an item whose encoder run
\* succeeded
C10_Witness ==
    /\ Encoding
    /\ itemIndex >= 1
    /\ returnData[itemIndex].ok
    /\ HasSubtitle(req.subtitlePath)
    /\ Len(Surviving) >= 2

\* ------------------------------------------- subtitle paths, exhaustively
\* Every file name of up to MaxPathLen characters over the three escaped
\* characters and one plain character, with a supported extension
PathAlphabet == {"\\", ":", "'", "a"}
EscapePaths ==
    { body \o <<".", "s", "r", "t">> :
        body \in UNION {[1..k -> PathAlphabet] : k \in 1..MaxPathLen} }

\* The state of an item whose request carries one of these paths and no
\* tracks, after validation and the probes
EscapeInit ==
    /\ node \in {"image", "video"}
    /\ continueOnFail = FALSE
    /\ itemIndex = 0
    /\ pc = "build"
    /\ \E sp \in EscapePaths :
          req = IF node = "image"
                THEN [sceneList |-> <<[image_filepath |-> ImagePath(0),
                                       scene_duration |-> 3000]>>,
                      videoPath |-> VideoPath(0), audioList |-> <<>>,
                      subtitlePath |-> sp, enableKenBurns |-> FALSE,
                      muteOriginalAudio |-> FALSE]
                ELSE [sceneList |-> <<>>, videoPath |-> StereoVideo, audioList |-> <<>>,
                      subtitlePath |-> sp, enableKenBurns |-> FALSE,
                      muteOriginalAudio |-> FALSE]
    /\ totalDuration = (IF node = "image" THEN TotalDuration(req.sceneList) ELSE 0)
    /\ videoInfo = (IF node = "image" THEN NoVideoInfo ELSE VideoMediaOf(StereoVideo))
    /\ audioInfos = <<>>
    /\ inputFiles = <<>>
    /\ filterParts = <<>>
    /\ audioLabels = <<>>
    /\ videoOutputLabel = NoLabel
    /\ ffmpegArgs = NoArgs
    /\ probes = (IF node = "image" THEN 0 ELSE 1)
    /\ spawns = 0
    /\ returnData = <<>>
    /\ error = NoError
    /\ stderrOutput = <<>>
    /\ exitStatus = {}
    /\ MergeIdle

\* Building the graph of such a request embeds the escaped path
EscapeSpec == EscapeInit /\ [][BuildAndRunFFmpeg]_vars

\* The characters a character of the path is to become
EscapedChar(c) ==
    CASE c = "\\" -> <<"\\", "\\", "\\", "\\">>
      [] c = ":"  -> <<"\\", ":">>
      [] c = "'"  -> <<"\\", "'">>
      [] OTHER    -> <<c>>
RECURSIVE EscapedCharByChar(_)
EscapedCharByChar(str) ==
    IF str = <<>> THEN <<>> ELSE EscapedChar(Head(str)) \o EscapedCharByChar(Tail(str))
\* The paths embedded in subtitle nodes of the current graph
EmbeddedPaths == {Graph[k].p : k \in NodesOfKind(Graph, "subtitles")}

\* C11: the path embedded in the graph is the subtitle path with every
\* backslash turned into four backslashes, every colon into backslash-colon,
\* every single quote into backslash-quote, every other character unchanged
\* and in place; the backslashes put in front of colons and quotes are not
\* quadrupled.
C11_EscapeIsCharacterwise ==
    Encoding => EmbeddedPaths = {EscapedCharByChar(req.subtitlePath)}

\* C11 witness: a path with a backslash, a colon and a quote, the colon
\* before the backslash, has been embedded
C11_Witness ==
    /\ Encoding
    /\ EmbeddedPaths # {}
    /\ \E i, j, k \in DOMAIN req.subtitlePath :
          /\ req.subtitlePath[i] = ":" /\ req.subtitlePath[j] = "\\"
          /\ req.subtitlePath[k] = "'" /\ i < j


\* ------------------------------------------------- requests that fail
\* The current item has failed: the catch block holds its error
Failed == pc \in {"catch", "thrown"}
\* Every file the request names apart from the subtitle is where it should
\* be and the image-based request has a scene
ScenesAndTracksValid ==
    /\ node = "image" => Len(req.sceneList) > 0
    /\ \A i \in DOMAIN req.sceneList : Exists(req.sceneList[i].image_filepath)
    /\ node = "video" => Exists(req.videoPath)
    /\ \A i \in DOMAIN req.audioList : Exists(req.audioList[i].path)
\* The extension of the request's subtitle path, lower-cased, is none of
\* the four supported ones
HasUnsupportedExtension ==
    /\ HasSubtitle(req.subtitlePath)
    /\ ToLowerCase(ExtName(req.subtitlePath)) \notin
          { <<".", "s", "r", "t">>, <<".", "a", "s", "s">>,
            <<".", "s", "s", "a">>, <<".", "v", "t", "t">> }
\* The item failed on the subtitle format, the error naming the extension
\* and the supported ones, with no probe made and no encoder started
FailedOnSubtitleFormat ==
    /\ Failed
    /\ error.type = "UnsupportedSubtitle"
    /\ error.subject.ext = ToLowerCase(ExtName(req.subtitlePath))
    /\ error.subject.allowed = supportedFormats
    /\ probes = 0
    /\ spawns = 0
    /\ ffmpegArgs = NoArgs

\* C12 as stated: a request whose scenes, base video and tracks are valid
\* and whose subtitle path has an unsupported extension fails with the
\* unsupported-format error, before any probe and without the encoder.
C12_UnsupportedExtensionFailsOnFormat ==
    (ScenesAndTracksValid /\ HasUnsupportedExtension) => FailedOnSubtitleFormat

\* C12: a request whose scenes, base video and tracks are valid and whose
\* subtitle path names an existing file with an unsupported extension
\* (compared in lower case) fails with the unsupported-format error that
\* names the extension and the supported set, before any probe call and
\* without the encoder being started.
C12_ExistingUnsupportedSubtitleFailsOnFormat ==
    (ScenesAndTracksValid /\ HasUnsupportedExtension /\ SubtitleExists(req.subtitlePath))
        => FailedOnSubtitleFormat

\* C12 witness: a request with tracks and an existing subtitle file whose
\* extension is written in capitals has failed on the format
C12_Witness ==
    /\ FailedOnSubtitleFormat
    /\ ScenesAndTracksValid
    /\ req.subtitlePath = UpperTxtSubtitle
    /\ Len(req.audioList) > 0

\* An item is being processed: req holds its parameters
InItem == pc \notin {"item", "returned"}
\* A path that is missing: empty, or no file is there
PathMissing(path) == path = EmptyPath \/ path = MissingFile(path.kind)
MissingScenes == {i \in DOMAIN req.sceneList : PathMissing(req.sceneList[i].image_filepath)}
MissingTracks == {i \in DOMAIN req.audioList : PathMissing(req.audioList[i].path)}
\* Nothing of a graph exists and the encoder was given no arguments
NoGraph == filterParts = <<>> /\ audioLabels = <<>> /\ ffmpegArgs = NoArgs
\* No success result is recorded for the current item
NoSuccessResult ==
    \A k \in DOMAIN returnData : returnData[k].pairedItem = itemIndex => ~returnData[k].ok

\* C13: an image-based request with an empty scene list, or with a scene or
\* track whose path is empty or names no file, fails with a validation
\* error before any probe call and without the encoder being started; no
\* graph and no success result exist for it.
C13_MissingInputFailsValidation ==
    (/\ node = "image"
     /\ InItem
     /\ Len(req.sceneList) = 0 \/ MissingScenes # {} \/ MissingTracks # {})
        => /\ Failed
           /\ error.type \in {"EmptySceneList", "ImageMissing", "AudioMissing"}
           /\ probes = 0
           /\ spawns = 0
           /\ NoGraph
           /\ NoSuccessResult

\* C13 witness: the second item of a run, whose second track has an empty
\* path behind a readable first track, has failed validation after the
\* first item succeeded
C13_Witness ==
    /\ node = "image"
    /\ Failed
    /\ itemIndex = 1
    /\ returnData = <<[ok |-> TRUE, pairedItem |-> 0]>>
    /\ Len(req.audioList) = 2
    /\ MissingTracks = {2}
    /\ req.audioList[2].path = EmptyPath
    /\ error = Err("AudioMissing", EmptyPath)

\* A duration of the request is negative: a scene's duration or a track's
\* start offset
NegativeScenes == {i \in DOMAIN req.sceneList : req.sceneList[i].scene_duration < 0}
NegativeStarts == {i \in DOMAIN req.audioList : req.audioList[i].start < 0}

\* C14: a request with a scene of negative duration, or with a track whose
\* start offset is negative, is rejected: it fails before a graph is built
\* and before the encoder is invoked.
C14_NegativeDurationsAreRejected ==
    (InItem /\ (NegativeScenes # {} \/ NegativeStarts # {}))
        => (pc # "encoding" /\ spawns = 0 /\ NoGraph)

\* C15: in video-based composition, once the probe of the base file has
\* reported that it has no video stream, the request has failed with the
\* missing-video-stream error: the base probe is the only probe made (no
\* overlay track was probed), no graph exists and the encoder was not
\* started.
C15_NoVideoStreamFailsAfterBaseProbe ==
    (node = "video" /\ probes >= 1 /\ req.videoPath = AudioOnly)
        => /\ Failed
           /\ error = Err("NoVideoStream", AudioOnly)
           /\ probes = 1
           /\ audioInfos = <<>>
           /\ spawns = 0
           /\ NoGraph
           /\ NoSuccessResult

\* C15 witness: a request with two overlay tracks and a subtitle, whose
\* base file has audio only, has failed after the one probe
C15_Witness ==
    /\ node = "video"
    /\ Failed
    /\ error.type = "NoVideoStream"
    /\ Len(req.audioList) = 2
    /\ HasSubtitle(req.subtitlePath)
    /\ probes = 1

\* The probe calls of the current request in the order they are made, and
\* those among them that meet a file that cannot be read
ProbeOrder ==
    (IF node = "video" THEN <<req.videoPath>> ELSE <<>>)
    \o [i \in DOMAIN req.audioList |-> req.audioList[i].path]
FailingProbes ==
    {k \in DOMAIN ProbeOrder : ProbeOrder[k] \in {CorruptFile, CorruptVideo}}

\* C16: once a probe call of a request has failed, the request has failed
\* with the probe's error: no probe is made after the failing one, nothing
\* of a graph is built from the tracks probed before it, the encoder is not
\* started and no success result is recorded for the item.
C16_ProbeFailureFailsTheRequest ==
    (InItem /\ FailingProbes # {} /\ probes >= Least(FailingProbes))
        => /\ Failed
           /\ error = Err("ProbeFailed", ProbeOrder[Least(FailingProbes)])
           /\ probes = Least(FailingProbes)
           /\ spawns = 0
           /\ NoGraph
           /\ NoSuccessResult

\* C16 witness: the probe of the second track failed after the probe of
\* the first one had answered
C16_Witness ==
    /\ Failed
    /\ error.type = "ProbeFailed"
    /\ Len(req.audioList) = 2
    /\ Len(audioInfos) = 1
    /\ probes >= 2

\* ------------------------------------------------ the encoder invocation
\* execFFmpeg as the image-based composer calls it, from the end of the
\* probes on: requests that passed validation and whose tracks were probed
EncoderRequests ==
    {r \in ImageRequestsOver(FewImageTracks, {NoSubtitle}, {FALSE}) :
        Validate("image", r) = NoError}
EncoderInit ==
    /\ node = "image"
    /\ continueOnFail \in BOOLEAN
    /\ itemIndex = 0
    /\ pc = "build"
    /\ req \in EncoderRequests
    /\ totalDuration = TotalDuration(req.sceneList)
    /\ videoInfo = NoVideoInfo
    /\ audioInfos = AudioInfosOf("image", req)
    /\ inputFiles = <<>>
    /\ filterParts = <<>>
    /\ audioLabels = <<>>
    /\ videoOutputLabel = NoLabel
    /\ ffmpegArgs = NoArgs
    /\ probes = Len(req.audioList)
    /\ spawns = 0
    /\ returnData = <<>>
    /\ error = NoError
    /\ stderrOutput = <<>>
    /\ exitStatus = {}
    /\ MergeIdle
EncoderNext ==
    \/ BuildAndRunFFmpeg
    \/ FFmpegStderr
    \/ FFmpegError
    \/ FFmpegClose
    \/ PushResult
    \/ Catch
EncoderSpec == EncoderInit /\ [][EncoderNext]_vars

\* The encoder is started at most once for an item, and the await of it
\* has resolved only if the process closed with exit status 0
OneInvocationResolvedOnZero ==
    /\ spawns <= 1
    /\ pc = "resolved" => (spawns = 1 /\ exitStatus = {0} /\ error = NoError)
\* The item failed because the process closed with another exit status: the
\* error carries that status and all the process wrote to stderr
FailedOnExitStatus ==
    /\ error.type = "EncodeFailed"
    /\ exitStatus = {error.subject.code}
    /\ error.subject.code # 0
    /\ error.subject.stderr = stderrOutput
\* The item failed because the process could not be started: there is no
\* exit status, and the error carries none and no output
FailedOnStart ==
    /\ error.type = "StartFailed"
    /\ exitStatus = {}
    /\ DOMAIN error.subject = {"kind", "n"}

\* C17 as stated: the encoder is invoked at most once per request and
\* resolves only on exit status 0; whenever the request fails after the
\* invocation, its error carries the exit status and the stderr output
\* collected so far, and no success result is recorded.
C17_EveryEncoderFailureCarriesStatusAndOutput ==
    /\ OneInvocationResolvedOnZero
    /\ (Failed /\ spawns = 1) => (FailedOnExitStatus /\ NoSuccessResult)

\* C17: the encoder is invoked at most once per request and never again
\* after it failed; the invocation resolves only when the process closed
\* with exit status 0; when it closed with another status the request fails
\* with an error carrying that status and the stderr output collected so
\* far; when it could not be started the request fails with an error that
\* carries neither; in both cases no success result is recorded.
C17_EncoderRunsOnceAndFailsWithItsStatus ==
    /\ OneInvocationResolvedOnZero
    /\ (Failed /\ spawns = 1)
          => ((FailedOnExitStatus \/ FailedOnStart) /\ NoSuccessResult)

\* C17 witness: the process wrote two chunks to stderr and closed with
\* status 1; the request, which has a track, failed with both in its error
C17_Witness ==
    /\ Failed
    /\ spawns = 1
    /\ FailedOnExitStatus
    /\ error.subject = [code |-> 1, stderr |-> <<"e", "w">>]
    /\ Len(req.audioList) > 0

\* Every probe call of the current request has been made and has answered
AllProbesAnswered ==
    /\ probes = Len(ProbeOrder)
    /\ FailingProbes = {}
    /\ error.type # "ProbeFailed"
    /\ Len(audioInfos) = Len(req.audioList)
    /\ node = "video" => (videoInfo = VideoMediaOf(req.videoPath) /\ videoInfo.hasVideo)

\* C18: graph construction and the encoder invocation of a request start
\* only after every probe call of the request has answered (the base video
\* first, then each track), and from the start of the encoder invocation on
\* the request's number of probe calls stays what it was.
C18_ProbesPrecedeGraphAndEncoder ==
    (pc \in {"build", "encoding", "resolved"} \/ ~NoGraph \/ spawns >= 1)
        => AllProbesAnswered

\* C18 witness: the encoder of a video-based request with two tracks runs,
\* three probes having answered before
C18_Witness ==
    /\ Encoding
    /\ node = "video"
    /\ Len(req.audioList) = 2
    /\ probes = 3
    /\ spawns = 1
    /\ ~NoGraph

\* ------------------------------------------------------- encoding mode
\* The statements of the graph that burn subtitles in, by the position of
\* their last token
SubtitleStatements ==
    {e \in DOMAIN Graph :
        IsStmtEnd(e) /\ NodesOfKind(Stmt(e), "subtitles") # {}}
\* What the first -map option names
MappedVideo == ffmpegArgs.map[1]

\* C19: in video-based composition the video codec option is full
\* re-encoding (libx264) exactly when the graph has a subtitle statement and
\* stream copy otherwise; with stream copy the mapped video output is the
\* raw video stream of the base input (0:v), with re-encoding it is the
\* output label of the subtitle statement.
C19_ReencodeIffSubtitleStatement ==
    (Encoding /\ node = "video")
        => /\ ffmpegArgs.vcodec = (IF SubtitleStatements # {} THEN "libx264" ELSE "copy")
           /\ ffmpegArgs.vcodec = "copy"
                 => MappedVideo = [k |-> "stream", s |-> "v", a |-> 0, b |-> 0, p |-> <<>>]
           /\ ffmpegArgs.vcodec = "libx264"
                 => /\ IsLabel(MappedVideo)
                    /\ Cardinality(SubtitleStatements) = 1
                    /\ \A e \in SubtitleStatements :
                          /\ Graph[e] = MappedVideo
                          /\ Stmt(e)[1] = InPad(0, "v")

\* C19 witness: a video-based request with a subtitle and a surviving
\* track is encoded with libx264 from the subtitle statement's label
C19_Witness ==
    /\ Encoding
    /\ node = "video"
    /\ ffmpegArgs.vcodec = "libx264"
    /\ SubtitleStatements # {}
    /\ MappedVideo = Named("outv")
    /\ \E i \in Tracks : ~VideoTrackSkipped(audioInfos[i], totalDuration)

\* The other case: a video-based request without a subtitle is stream-copied
C19_CopyReached ==
    Encoding /\ node = "video" /\ ffmpegArgs.vcodec = "copy" /\ SubtitleStatements = {}

\* ------------------------------------------------------ the scene chains
\* The statements with a node of the given kind, by their last position
StatementsWith(kind) ==
    {e \in DOMAIN Graph : IsStmtEnd(e) /\ NodesOfKind(Stmt(e), kind) # {}}
\* st is the chain of scene i (1-based): it reads the video pad of encoder
\* input i - 1, which is the scene's image, trims once, to the scene's
\* duration in seconds, and defines [v(i-1)]
IsSceneChain(st, i) ==
    /\ WellFormed(st)
    /\ Reads(st) = <<InPad(i - 1, "v")>>
    /\ ffmpegArgs.inputs[i] = req.sceneList[i].image_filepath
    /\ Cardinality(NodesOfKind(st, "trim")) = 1
    /\ \A k \in NodesOfKind(st, "trim") :
          st[k].a = req.sceneList[i].scene_duration * Sub
    /\ Last(st) = Label("v", i - 1)
\* The trim duration of the statement that defines [v(i-1)], in units
TrimOfScene(i) ==
    LET st == Stmt(CHOOSE e \in Defining(Label("v", i - 1)) : TRUE)
    IN  st[CHOOSE k \in NodesOfKind(st, "trim") : TRUE].a
RECURSIVE SumOfTrims(_)
SumOfTrims(n) == IF n = 0 THEN 0 ELSE SumOfTrims(n - 1) + TrimOfScene(n)

\* C20: in image-based composition with n >= 1 scenes the graph has exactly
\* n scene chains; the chain of scene i reads encoder input i, the scene's
\* image, and is trimmed to durationMs_i / 1000 seconds; one concat
\* statement takes the n labels [v0] ... [v(n-1)] in scene order; and the
\* trim durations add up to the total duration.
C20_OneChainPerSceneAndOneConcat ==
    (Encoding /\ node = "image")
        => LET n == Len(req.sceneList)
               concats == StatementsWith("concat")
           IN  /\ n >= 1
               /\ Cardinality(StatementsWith("trim")) = n
               /\ \A i \in 1..n :
                     LET d == Defining(Label("v", i - 1))
                     IN  /\ Cardinality(d) = 1
                         /\ \A e \in d : IsSceneChain(Stmt(e), i)
               /\ Cardinality(concats) = 1
               /\ \A e \in concats :
                     LET st == Stmt(e)
                     IN  /\ WellFormed(st)
                         /\ Reads(st) = [j \in 1..n |-> Label("v", j - 1)]
                         /\ Len(Nodes(st)) = 1
                         /\ Nodes(st)[1].a = n
               /\ SumOfTrims(n) = totalDuration

\* C20 witness: two scenes of different durations, with a track, each
\* trimmed to its own duration
C20_Witness ==
    /\ Encoding
    /\ node = "image"
    /\ Len(req.sceneList) = 2
    /\ req.sceneList[1].scene_duration = 3000
    /\ req.sceneList[2].scene_duration = 2000
    /\ Len(req.audioList) = 1
    /\ TrimOfScene(1) = 3000 * Sub
    /\ TrimOfScene(2) = 2000 * Sub
    /\ totalDuration = 5000 * Sub

\* -------------------------------------------- the order of the statements
\* The statements of the graph, by the position of their last token, and
\* the side of the graph a statement belongs to by the label it defines
StmtEnds == {e \in DOMAIN Graph : IsStmtEnd(e)}
IsVideoStmt(e) == Graph[e].k = "label" /\ Graph[e].s \in {"v", "video_concat", "outv"}
IsAudioStmt(e) == Graph[e].k = "label" /\ Graph[e].s \in {"a", "orig_audio", "mixed", "outa"}

\* C21: in the serialized graph every video statement (scene chains,
\* concat, subtitle or copy) precedes every audio statement (track chains,
\* then mix, identity or silence); scene chains and track chains appear in
\* input order, before the concat and the mix; and the text is non-empty
\* statements joined by single ";".
C21_VideoStatementsThenAudioInOrder ==
    Encoding
        => /\ Graph # <<>>
           /\ \A e \in StmtEnds :
                 /\ WellFormed(Stmt(e))
                 /\ \A k \in StmtStart(e)..e : Graph[k] # Semi
                 /\ IsVideoStmt(e) \/ IsAudioStmt(e)
           /\ \A e1, e2 \in StmtEnds :
                 /\ (IsVideoStmt(e1) /\ IsAudioStmt(e2)) => e1 < e2
                 /\ (/\ Graph[e1].s = Graph[e2].s
                     /\ Graph[e1].s \in {"v", "a"}
                     /\ Graph[e1].a < Graph[e2].a) => e1 < e2
                 /\ (Graph[e1].s = "v" /\ Graph[e2].s \in {"video_concat", "outv"})
                       => e1 < e2
                 /\ (Graph[e1].s = "video_concat" /\ Graph[e2].s = "outv") => e1 < e2
                 /\ (Graph[e1].s \in {"a", "orig_audio"} /\ Graph[e2].s \in {"mixed", "outa"})
                       => e1 < e2

\* C21 witness: an image-based graph with two scene chains, a subtitle
\* statement, two track chains and a mix
C21_Witness ==
    /\ Encoding
    /\ node = "image"
    /\ Cardinality({e \in StmtEnds : Graph[e].s = "v"}) = 2
    /\ Cardinality({e \in StmtEnds : Graph[e].s = "a"}) = 2
    /\ NodesOfKind(Graph, "subtitles") # {}
    /\ NodesOfKind(Graph, "amix") # {}

\* ---------------------------------------------------- the original audio
\* The overlay tracks of a video-based request that are not skipped
UnskippedTracks == {i \in Tracks : HasAudioStream(i) /\ EffectiveDurationSec(i) > 0}
\* The request does not mute the base video and the probe found audio in it
WantsOriginalAudio == ~req.muteOriginalAudio /\ VideoMediaOf(req.videoPath).hasAudio
\* The number of streams to mix: the unskipped tracks and the original audio
MixCount == Cardinality(UnskippedTracks) + (IF WantsOriginalAudio THEN 1 ELSE 0)
\* The statement that defines the final audio output
OutaStmt == Stmt(CHOOSE e \in Defining(Named("outa")) : TRUE)

\* C22: in video-based composition the base video's audio is a source of
\* the graph exactly when mute-original is false and the probe reported an
\* audio stream; then it is the first input of the statement that produces
\* the audio output, and it counts toward the number N of streams that
\* selects silence (0), pass-through (1) or a mix of N inputs (2 or more).
C22_OriginalAudioIffUnmutedAndPresent ==
    (Encoding /\ node = "video")
        => LET orig == Defining(Named("orig_audio"))
               out  == OutaStmt
           IN  /\ (orig # {}) <=> WantsOriginalAudio
               /\ (\E k \in DOMAIN Graph : Graph[k] = InPad(0, "a")) <=> WantsOriginalAudio
               /\ Cardinality(orig) <= 1
               /\ \A e \in orig : Reads(Stmt(e)) = <<InPad(0, "a")>>
               /\ WantsOriginalAudio => Reads(out)[1] = Named("orig_audio")
               /\ Len(Reads(out)) = MixCount
               /\ Nodes(out)[1].k = (IF MixCount = 0 THEN "anullsrc"
                                     ELSE IF MixCount = 1 THEN "anull" ELSE "amix")
               /\ MixCount >= 2 => Nodes(out)[1].a = MixCount

\* C22 witness: the original audio and one unskipped overlay track are
\* mixed as two streams, the original audio first
C22_Witness ==
    /\ Encoding
    /\ node = "video"
    /\ WantsOriginalAudio
    /\ Cardinality(UnskippedTracks) = 1
    /\ Len(req.audioList) = 2
    /\ Reads(OutaStmt)[1] = Named("orig_audio")
    /\ Nodes(OutaStmt)[1].k = "amix"
    /\ Nodes(OutaStmt)[1].a = 2

\* The other case of C22: the original audio alone passes through
C22_OriginalAloneReached ==
    /\ Encoding
    /\ node = "video"
    /\ WantsOriginalAudio
    /\ UnskippedTracks = {}
    /\ Nodes(OutaStmt)[1].k = "anull"

\* ------------------------------------------------ what a failure names
\* The inputs a message of the validation step names: the file path it
\* interpolates, or the parameter its text speaks of (the scene list; the
\* subtitle, of which getSubtitleFormat prints only the extension)
ValidationNames(err) ==
    CASE err.type \in {"ImageMissing", "VideoMissing", "AudioMissing", "SubtitleMissing"}
             -> {err.subject}
      [] err.type = "EmptySceneList"      -> {[kind |-> "sceneList", n |-> 0]}
      [] err.type = "UnsupportedSubtitle" -> {SubtitleFile}
      [] OTHER -> {}
\* 'Input file is missing video stream!' interpolates nothing
StreamCheckNames(err) == {}
\* The messages of the child processes interpolate the exit status and the
\* collected stderr, or the message of the start error. ffprobe runs with
\* '-v quiet' and writes nothing to stderr; the encoder's stderr is its own
\* text. The video-based node probes through the library, whose message is
\* taken to name the file.
ProcessNames(n, err) ==
    IF err.type = "ProbeFailed" /\ n = "video" THEN {err.subject} ELSE {}
\* error.message as the catch block passes it on
MessageNames(n, err) ==
    CASE err.type \in {"ProbeFailed", "StartFailed", "EncodeFailed"} -> ProcessNames(n, err)
      [] err.type = "NoVideoStream" -> StreamCheckNames(err)
      [] OTHER -> ValidationNames(err)
\* The file paths and parameters of the request in hand
InputsOf(r) ==
    {r.sceneList[i].image_filepath : i \in DOMAIN r.sceneList}
        \cup {r.audioList[i].path : i \in DOMAIN r.audioList}
        \cup {r.videoPath, SubtitleFile, [kind |-> "sceneList", n |-> 0]}

\* C23: every failure of a composition node names an input of the request
\* that triggered it: whenever an item has failed, the message of the error
\* names a file path or a parameter of that request. (Violated: the
\* missing-stream, probe and encoder messages name none.)
C23_EveryFailureNamesAnInput ==
    Failed => MessageNames(node, error) \cap InputsOf(req) # {}

\* The failures for which C23 does hold: those of the validation step
C23_ValidationFailuresNameTheirInput ==
    (Failed /\ probes = 0 /\ spawns = 0)
        => MessageNames(node, error) \cap InputsOf(req) # {}

\* ============================================================ merge nodes
\* VideoMerge.execute (unnamed/part_001) and AudioMerge.execute
\* (nodes/AudioMerge/AudioMerge.node.ts).  One execute call either merges
\* the paths of all input items into one output (inputMode "fromNode") or
\* merges, item by item, the paths each item lists (inputMode "manual").

\* The video files a merge request can name, by what the probe reports
ClipPath(k) == [kind |-> "clip", n |-> k]
WideClip     == ClipPath(0)   \* 64x36, 30 fps, stereo, 5 s
TallClip     == ClipPath(1)   \* 36x64, 25 fps, mono, 3 s
OddClip      == ClipPath(2)   \* 63x35, 24 fps, no audio stream, 2.5 s
UntimedClip  == ClipPath(3)   \* 48x48, 90 fps, no audio stream, no duration reported
SoundOnly    == ClipPath(4)   \* an audio stream only
CorruptClip  == ClipPath(5)   \* a file the probe cannot read

ClipProbeFails(path) == path = CorruptClip

\* getVideoStreamInfo: duration in units (0 where the metadata has none),
\* the size and frame rate of the video stream, the channels of the audio
\* stream (0 with hasAudio FALSE stands for audioStream null)
getVideoStreamInfo(path) ==
    CASE path = WideClip    -> [hasVideo |-> TRUE, hasAudio |-> TRUE, duration |-> MsToSec(5000),
                                width |-> 64, height |-> 36, fps |-> 30, channels |-> 2]
      [] path = TallClip    -> [hasVideo |-> TRUE, hasAudio |-> TRUE, duration |-> MsToSec(3000),
                                width |-> 36, height |-> 64, fps |-> 25, channels |-> 1]
      [] path = OddClip     -> [hasVideo |-> TRUE, hasAudio |-> FALSE, duration |-> MsToSec(2500),
                                width |-> 63, height |-> 35, fps |-> 24, channels |-> 0]
      [] path = UntimedClip -> [hasVideo |-> TRUE, hasAudio |-> FALSE, duration |-> 0,
                                width |-> 48, height |-> 48, fps |-> 90, channels |-> 0]
      [] OTHER              -> [hasVideo |-> FALSE, hasAudio |-> TRUE, duration |-> MsToSec(1000),
                                width |-> 0, height |-> 0, fps |-> 0, channels |-> 2]

\* The paths an item of a merge request can carry; EmptyPath is an empty
\* or blank line
MergeCatalogue(n) ==
    IF n = "videoMerge"
    THEN {ClipPath(k) : k \in 0..5} \cup {MissingFile("clip"), EmptyPath}
    ELSE {MonoFile, StereoFile, MissingFile("audio"), EmptyPath}

\* .map(trim).filter(length > 0), and the test of the fromNode loop
NonBlank(lines) == SelectSeq(lines, LAMBDA l : l # EmptyPath)

\* ------------------------------------------- Video Merge: target format
MaxOf(S) == CHOOSE x \in S : \A y \in S : y <= x
\* x || 1
Or1(x) == IF x = 0 THEN 1 ELSE x
\* Math.round(a / b) for a >= 0, b > 0: ties toward +Infinity
MathRoundDiv(a, b) == (2 * a + b) \div (2 * b)
RECURSIVE ProductOfHeights(_)
ProductOfHeights(infos) ==
    IF infos = <<>> THEN 1 ELSE Or1(Head(infos).height) * ProductOfHeights(Tail(infos))
\* The sum of the aspect ratios width/height as a fraction over the
\* product of the heights
RECURSIVE SumOfRatios(_, _)
SumOfRatios(infos, den) ==
    IF infos = <<>> THEN 0
    ELSE Or1(Head(infos).width) * (den \div Or1(Head(infos).height))
         + SumOfRatios(Tail(infos), den)
\* Math.round(x / 2) * 2
RoundToEven(x) == MathRoundDiv(x, 2) * 2

\* targetFps: the largest frame rate, kept within 24..60
TargetFps(infos) ==
    LET maxFps == MaxOf({infos[i].fps : i \in DOMAIN infos})
    IN  IF maxFps > 60 THEN 60 ELSE IF maxFps < 24 THEN 24 ELSE maxFps

\* targetWidth and targetHeight.  avgAspectRatio is num / (n * den); the
\* divisions and products by it are exact here where the code has doubles.
TargetSize(infos) ==
    LET n   == Len(infos)
        den == ProductOfHeights(infos)
        num == SumOfRatios(infos, den)
        isLandscape == num >= n * den
        maxWidth  == MaxOf({infos[i].width : i \in DOMAIN infos})
        maxHeight == MaxOf({infos[i].height : i \in DOMAIN infos})
        byWidth   == MathRoundDiv(maxWidth * n * den, num)
        byHeight  == MathRoundDiv(maxHeight * num, n * den)
        size == IF isLandscape
                THEN IF byWidth > maxHeight
                     THEN [w |-> byHeight, h |-> maxHeight]
                     ELSE [w |-> maxWidth, h |-> byWidth]
                ELSE IF byHeight > maxWidth
                     THEN [w |-> maxWidth, h |-> byWidth]
                     ELSE [w |-> byHeight, h |-> maxHeight]
    IN  [w |-> RoundToEven(size.w), h |-> RoundToEven(size.h)]

\* -------------------------------------------- Video Merge: filter graph
\* The video chain of file i (0-based)
MergeVideoFilter(i, w, h, f) ==
    <<InPad(i, "v"),
      Flt("scale", "force_original_aspect_ratio=decrease", w, h), Comma,
      Flt("pad", "(ow-iw)/2:(oh-ih)/2:color=black", w, h), Comma,
      Flt("setsar", "1", 0, 0), Comma,
      Flt("fps", "", f, 0), Comma,
      Flt("format", "yuv420p", 0, 0),
      Label("v", i)>>
\* The audio chain of a file that has an audio stream
MergeAudioFilter(i, info) ==
    IF ChannelsOr2(info.channels) = 1
    THEN <<InPad(i, "a"),
           Flt("aresample", "", targetSampleRate, 0), Comma,
           Flt("aformat", "mono", targetSampleRate, 0), Comma,
           Flt("pan", "stereo|c0=c0|c1=c0", 0, 0),
           Label("a", i)>>
    ELSE <<InPad(i, "a"),
           Flt("aresample", "", targetSampleRate, 0), Comma,
           Flt("aformat", "stereo", targetSampleRate, 0),
           Label("a", i)>>
\* Silence as long as the file is, whatever the probe found
SilenceOfProbedLength(i, info) ==
    <<Flt("anullsrc", "stereo", targetSampleRate, info.duration), Label("a", i)>>
\* The silent source for a file without audio: streamInfos[i].duration || 1
SilenceFilter(i, info) ==
    <<Flt("anullsrc", "stereo", targetSampleRate,
          IF info.duration = 0 THEN MsToSec(1000) ELSE info.duration),
      Label("a", i)>>
RECURSIVE ConcatInputs(_)
ConcatInputs(n) ==
    IF n = 0 THEN <<>> ELSE ConcatInputs(n - 1) \o <<Label("v", n - 1), Label("a", n - 1)>>
MergeConcatFilter(n) ==
    ConcatInputs(n) \o <<Flt("concat", "v=1:a=1:unsafe=1", n, 0), Named("outv"), Named("outa")>>
\* filterParts before the concat, for the files 0..k-1
RECURSIVE MergeChains(_, _, _, _, _)
MergeChains(infos, k, w, h, f) ==
    IF k = 0 THEN <<>>
    ELSE MergeChains(infos, k - 1, w, h, f)
         \o <<MergeVideoFilter(k - 1, w, h, f),
              IF infos[k].hasAudio THEN MergeAudioFilter(k - 1, infos[k])
              ELSE SilenceFilter(k - 1, infos[k])>>
\* filterParts of either branch (allHaveAudio or not): with audio in every
\* file no silence is asked for, and the statements are the same
MergeFilterParts(infos, w, h, f) ==
    Append(MergeChains(infos, Len(infos), w, h, f), MergeConcatFilter(Len(infos)))

\* ------------------------------------------------- merge nodes: execute
\* What the composers use and the merge nodes do not
composerVars == <<totalDuration, videoInfo, audioInfos, audioLabels,
                  videoOutputLabel, stderrOutput>>
ListFile == [kind |-> "list", n |-> 0]

MergeInit ==
    /\ node \in {"audioMerge", "videoMerge"}
    /\ continueOnFail \in BOOLEAN
    /\ inputMode \in {"fromNode", "manual"}
    /\ items \in (IF inputMode = "fromNode"
                  THEN SeqsUpTo(MergeCatalogue(node), MaxFiles) \ {<<>>}
                  ELSE {<<>>})
    /\ itemIndex = 0
    /\ pc = (IF inputMode = "fromNode" THEN "collect" ELSE "item")
    /\ req = NoRequest
    /\ totalDuration = 0
    /\ videoInfo = NoVideoInfo
    /\ audioInfos = <<>>
    /\ inputFiles = <<>>
    /\ filterParts = <<>>
    /\ audioLabels = <<>>
    /\ videoOutputLabel = NoLabel
    /\ ffmpegArgs = NoArgs
    /\ probes = 0
    /\ spawns = 0
    /\ returnData = <<>>
    /\ error = NoError
    /\ stderrOutput = <<>>
    /\ exitStatus = {}
    /\ fileList = NoFile
    /\ streamInfos = <<>>
    /\ targetWidth = 0
    /\ targetHeight = 0

\* The checks on the collected paths: there is one at least, and every one
\* names a file that exists; the first check that fails gives the error
MergeValidate(n, files) ==
    LET missing == {i \in DOMAIN files : ~Exists(files[i])}
    IN  IF files = <<>> THEN Err("NoPaths", [kind |-> "paths", n |-> 0])
        ELSE IF missing # {}
          THEN Err(IF n = "videoMerge" THEN "VideoMissing" ELSE "AudioMissing",
                   files[Least(missing)])
        ELSE NoError

\* inputMode "fromNode": the non-blank paths of all items are collected;
\* with none the error is thrown where no try block encloses it; the
\* existence checks run inside the try block
CollectPaths ==
    /\ pc = "collect"
    /\ LET files == NonBlank(items)
           err   == MergeValidate(node, files)
       IN  /\ inputFiles' = files
           /\ error' = err
           /\ pc' = IF files = <<>> THEN "thrown"
                    ELSE IF err # NoError THEN "catch" ELSE "validated"
    /\ UNCHANGED <<node, continueOnFail, itemIndex, req, filterParts, ffmpegArgs,
                   probes, spawns, returnData, exitStatus, inputMode, items,
                   fileList, streamInfos, targetWidth, targetHeight>>
    /\ UNCHANGED composerVars

\* inputMode "manual", head of the loop body: the lines of the item's path
\* list are split, trimmed and filtered, then checked, all inside the try
MergeStartItem ==
    /\ pc = "item"
    /\ inputMode = "manual"
    /\ itemIndex < MaxItems
    /\ \E lines \in SeqsUpTo(MergeCatalogue(node), MaxFiles) :
          LET files == NonBlank(lines)
              err   == MergeValidate(node, files)
          IN  /\ req' = [paths |-> lines]
              /\ inputFiles' = files
              /\ error' = err
              /\ pc' = IF err # NoError THEN "catch" ELSE "validated"
    /\ UNCHANGED <<node, continueOnFail, itemIndex, filterParts, ffmpegArgs,
                   probes, spawns, returnData, exitStatus, inputMode, items,
                   fileList, streamInfos, targetWidth, targetHeight>>
    /\ UNCHANGED composerVars

\* Video Merge: every file is probed in turn, a probe that fails rejects;
\* then every file must have a video stream
ProbeStreams ==
    /\ pc = "validated"
    /\ node = "videoMerge"
    /\ LET infos   == [i \in DOMAIN inputFiles |-> getVideoStreamInfo(inputFiles[i])]
           failing == {i \in DOMAIN inputFiles : ClipProbeFails(inputFiles[i])}
       IN  IF failing # {}
           THEN /\ streamInfos' = SubSeq(infos, 1, Least(failing) - 1)
                /\ probes' = Least(failing)
                /\ error' = Err("ProbeFailed", inputFiles[Least(failing)])
                /\ pc' = "catch"
           ELSE /\ streamInfos' = infos
                /\ probes' = Len(inputFiles)
                /\ IF \E i \in DOMAIN infos : ~infos[i].hasVideo
                   THEN /\ error' = Err("NoVideoStream", [kind |-> "some", n |-> 0])
                        /\ pc' = "catch"
                   ELSE /\ error' = error
                        /\ pc' = "build"
    /\ UNCHANGED <<node, continueOnFail, itemIndex, req, inputFiles, filterParts,
                   ffmpegArgs, spawns, returnData, exitStatus, inputMode, items,
                   fileList, targetWidth, targetHeight>>
    /\ UNCHANGED composerVars

\* Video Merge: the target format is computed, every file becomes an input
\* of the command, the graph is built and the command is run
BuildMerge ==
    /\ pc = "build"
    /\ node = "videoMerge"
    /\ LET size  == TargetSize(streamInfos)
           parts == MergeFilterParts(streamInfos, size.w, size.h, TargetFps(streamInfos))
       IN  /\ targetWidth' = size.w
           /\ targetHeight' = size.h
           /\ filterParts' = parts
           /\ ffmpegArgs' = [inputs |-> inputFiles, filter_complex |-> JoinParts(parts),
                             map |-> <<Named("outv"), Named("outa")>>, vcodec |-> "libx264"]
    /\ spawns' = spawns + 1
    /\ pc' = "encoding"
    /\ UNCHANGED <<node, continueOnFail, itemIndex, req, inputFiles, probes,
                   returnData, error, exitStatus, inputMode, items, fileList,
                   streamInfos>>
    /\ UNCHANGED composerVars

\* Audio Merge: the concat list, one line per file in the order of
\* audioFiles, is written next to the output and the encoder is started
\* with the list as its input
WriteListAndRun ==
    /\ pc = "validated"
    /\ node = "audioMerge"
    /\ fileList' = [exists |-> TRUE, content |-> inputFiles]
    /\ ffmpegArgs' = [inputs |-> <<ListFile>>, filter_complex |-> <<>>,
                      map |-> <<>>, vcodec |-> ""]
    /\ spawns' = spawns + 1
    /\ pc' = "encoding"
    /\ UNCHANGED <<node, continueOnFail, itemIndex, req, inputFiles, filterParts,
                   probes, returnData, error, exitStatus, inputMode, items,
                   streamInfos, targetWidth, targetHeight>>
    /\ UNCHANGED composerVars

\* The encoder ends well: exit status 0 / the 'end' event.  In Audio Merge
\* the finally block runs next.
EncoderEnd ==
    /\ pc = "encoding"
    /\ exitStatus' = {0}
    /\ pc' = IF node = "audioMerge" THEN "finally" ELSE "resolved"
    /\ UNCHANGED <<node, continueOnFail, itemIndex, req, inputFiles, filterParts,
                   ffmpegArgs, probes, spawns, returnData, error, inputMode, items,
                   fileList, streamInfos, targetWidth, targetHeight>>
    /\ UNCHANGED composerVars

\* The encoder cannot be started or exits with another status: the await
\* rejects
EncoderFails ==
    /\ pc = "encoding"
    /\ \/ /\ exitStatus' = exitStatus
          /\ error' = Err("StartFailed", [kind |-> "start", n |-> 0])
       \/ /\ exitStatus' = {1}
          /\ error' = Err("EncodeFailed", [code |-> 1, stderr |-> <<>>])
    /\ pc' = IF node = "audioMerge" THEN "finally" ELSE "catch"
    /\ UNCHANGED <<node, continueOnFail, itemIndex, req, inputFiles, filterParts,
                   ffmpegArgs, probes, spawns, returnData, inputMode, items,
                   fileList, streamInfos, targetWidth, targetHeight>>
    /\ UNCHANGED composerVars

\* A finally block that cleans up after a success only
FinallyAfterSuccess ==
    /\ pc = "finally"
    /\ fileList' = IF error = NoError THEN NoFile ELSE fileList
    /\ pc' = IF error = NoError THEN "resolved" ELSE "catch"
    /\ UNCHANGED <<node, continueOnFail, itemIndex, req, inputFiles, filterParts,
                   ffmpegArgs, probes, spawns, returnData, error, exitStatus,
                   inputMode, items, streamInfos, targetWidth, targetHeight>>
    /\ UNCHANGED composerVars

\* Audio Merge, finally: the list file is deleted if it is there, whether
\* the await resolved or rejected
Finally ==
    /\ pc = "finally"
    /\ fileList' = IF fileList.exists THEN NoFile ELSE fileList
    /\ pc' = IF error = NoError THEN "resolved" ELSE "catch"
    /\ UNCHANGED <<node, continueOnFail, itemIndex, req, inputFiles, filterParts,
                   ffmpegArgs, probes, spawns, returnData, error, exitStatus,
                   inputMode, items, streamInfos, targetWidth, targetHeight>>
    /\ UNCHANGED composerVars

\* After the result or the error item of a request: "fromNode" has nothing
\* more to do; "manual" goes on with the next item, whose iteration
\* declares its locals anew and assigns the list of files before it reads it
MergeNext ==
    IF inputMode = "fromNode"
    THEN /\ pc' = "done"
         /\ UNCHANGED <<itemIndex, req, inputFiles, filterParts, ffmpegArgs, probes,
                        spawns, exitStatus, streamInfos, targetWidth, targetHeight>>
    ELSE /\ pc' = "item"
         /\ itemIndex' = itemIndex + 1
         /\ req' = NoRequest
         /\ inputFiles' = <<>>
         /\ filterParts' = <<>>
         /\ ffmpegArgs' = NoArgs
         /\ probes' = 0
         /\ spawns' = 0
         /\ exitStatus' = {}
         /\ streamInfos' = <<>>
         /\ targetWidth' = 0
         /\ targetHeight' = 0

\* The success result is pushed
MergePushResult ==
    /\ pc = "resolved"
    /\ returnData' = Append(returnData, [ok |-> TRUE, pairedItem |-> itemIndex])
    /\ error' = error
    /\ MergeNext
    /\ UNCHANGED <<node, continueOnFail, inputMode, items, fileList>>
    /\ UNCHANGED composerVars

\* catch (error): with continueOnFail an error item is pushed; otherwise
\* the error is thrown out of execute
MergeCatch ==
    /\ pc = "catch"
    /\ IF continueOnFail
       THEN /\ returnData' = Append(returnData, [ok |-> FALSE, pairedItem |-> itemIndex])
            /\ error' = NoError
            /\ MergeNext
       ELSE /\ pc' = "thrown"
            /\ UNCHANGED <<returnData, error, itemIndex, req, inputFiles, filterParts,
                           ffmpegArgs, probes, spawns, exitStatus, streamInfos,
                           targetWidth, targetHeight>>
    /\ UNCHANGED <<node, continueOnFail, inputMode, items, fileList>>
    /\ UNCHANGED composerVars

\* return [returnData]
MergeReturn ==
    /\ pc = "done" \/ (pc = "item" /\ inputMode = "manual")
    /\ pc' = "returned"
    /\ UNCHANGED <<node, continueOnFail, itemIndex, req, inputFiles, filterParts,
                   ffmpegArgs, probes, spawns, returnData, error, exitStatus>>
    /\ UNCHANGED mergeVars
    /\ UNCHANGED composerVars

MergeStep ==
    \/ CollectPaths
    \/ MergeStartItem
    \/ ProbeStreams
    \/ BuildMerge
    \/ WriteListAndRun
    \/ EncoderEnd
    \/ EncoderFails
    \/ Finally
    \/ MergePushResult
    \/ MergeCatch
    \/ MergeReturn

MergeSpec == MergeInit /\ [][MergeStep]_vars

\* --------------------------------------------- the graph of Video Merge
MergeEncoding == pc = "encoding" /\ node = "videoMerge"
\* What the probe reported for input i (0-based) of the merge
ProbedClip(i) == getVideoStreamInfo(inputFiles[i + 1])
ClipIndices == 0..(Len(inputFiles) - 1)
\* For every input one statement defines [v i] and one defines [a i]; the
\* video chain reads the file's video, the audio chain of a file with
\* audio reads the file's audio
LabelsOncePerInput ==
    \A i \in ClipIndices :
        /\ Cardinality(Defining(Label("v", i))) = 1
        /\ Cardinality(Defining(Label("a", i))) = 1
        /\ \A e \in Defining(Label("v", i)) : Reads(Stmt(e)) = <<InPad(i, "v")>>
        /\ ProbedClip(i).hasAudio
              => \A e \in Defining(Label("a", i)) : Reads(Stmt(e)) = <<InPad(i, "a")>>
\* [a i] is nothing but a silent stereo source of the given length
SilentSource(i, d) ==
    \A e \in Defining(Label("a", i)) :
        Stmt(e) = <<Flt("anullsrc", "stereo", targetSampleRate, d), Label("a", i)>>
\* The statements with a concat node
ConcatStmts == {e \in StmtEnds : \E k \in StmtStart(e)..e : Graph[k].k = "concat"}
\* One concat statement, the last of the graph: it takes [v0][a0][v1][a1]...
\* and gives [outv][outa]
ConcatPairwise ==
    LET n == Len(inputFiles)
    IN  /\ ConcatStmts = {Len(Graph)}
        /\ Stmt(Len(Graph)) =
              [j \in 1..(2 * n) |-> IF j % 2 = 1 THEN Label("v", (j - 1) \div 2)
                                    ELSE Label("a", (j - 2) \div 2)]
              \o <<Flt("concat", "v=1:a=1:unsafe=1", n, 0), Named("outv"), Named("outa")>>

\* C24 as stated: in Video Merge every input has exactly one [v i] and one
\* [a i]; for a file without audio [a i] is silence of the file's probed
\* duration; the concat takes the 2n labels pairwise in input order and
\* gives the two output labels.  (Violated: a probed duration of 0 gives
\* one second of silence.)
C24_SilenceOfProbedDuration ==
    MergeEncoding
        => /\ LabelsOncePerInput
           /\ ConcatPairwise
           /\ \A i \in ClipIndices :
                 ~ProbedClip(i).hasAudio => SilentSource(i, ProbedClip(i).duration)

\* C24, amended: as above, and the silence for a file without audio lasts
\* the file's probed duration, or one second where the probe reports no
\* duration (0).
C24_SilenceOfProbedDurationOrOneSecond ==
    MergeEncoding
        => /\ LabelsOncePerInput
           /\ ConcatPairwise
           /\ \A i \in ClipIndices :
                 ~ProbedClip(i).hasAudio
                    => SilentSource(i, IF ProbedClip(i).duration = 0 THEN MsToSec(1000)
                                       ELSE ProbedClip(i).duration)

\* C24 witness: a file with audio and a file without audio or duration are
\* merged
C24_Witness ==
    /\ MergeEncoding
    /\ inputFiles = <<TallClip, UntimedClip>>
    /\ SilentSource(1, MsToSec(1000))
    /\ ConcatPairwise

\* ----------------------------------------------------- the track budget
\* What the chain of track i says: the length kept by its trim node and the
\* length of its padding node (thousandths of a second, here in units), 0
\* without one
TrimmedSec(i) ==
    LET st == ChainOf(i)
    IN  st[CHOOSE k \in NodesOfKind(st, "atrim") : TRUE].b
PaddedSec(i) ==
    LET st   == ChainOf(i)
        pads == NodesOfKind(st, "apad")
    IN  IF pads = {} THEN 0 ELSE st[CHOOSE k \in pads : TRUE].a * Sub

\* C25: for every track that has a chain in the graph and starts at 0 or
\* later, start offset + trimmed (effective) duration + padding duration
\* (0 without a padding node) is the total duration, up to the rounding of
\* the padding to thousandths of a second.
C25_StartPlusEffectivePlusPadIsTotal ==
    Encoding
        => \A i \in Tracks :
              (Defining(TrackLabel(i)) # {} /\ StartOffsetSec(i) >= 0)
                 => /\ Cardinality(NodesOfKind(ChainOf(i), "atrim")) = 1
                    /\ Cardinality(NodesOfKind(ChainOf(i), "apad")) <= 1
                    /\ 2 * Abs(StartOffsetSec(i) + TrimmedSec(i) + PaddedSec(i) - totalDuration)
                          <= Sub

\* C25 witness: of two tracks that start at 0 or later one is padded by a
\* length that is no whole number of thousandths and one, cut at the end of
\* the timeline, has no padding
C25_Witness ==
    /\ Encoding
    /\ \E i, j \in Tracks :
          /\ Defining(TrackLabel(i)) # {} /\ StartOffsetSec(i) >= 0
          /\ PaddedSec(i) > 0
          /\ StartOffsetSec(i) + TrimmedSec(i) + PaddedSec(i) # totalDuration
          /\ Defining(TrackLabel(j)) # {} /\ StartOffsetSec(j) > 0
          /\ PaddedSec(j) = 0
          /\ TrimmedSec(j) < ProbedDurationSec(j)

\* ------------------------------------------------ the inputs of a chain
\* The tracks that have a chain in the graph, and the place of track i
\* among them
ChainedTracks == {i \in Tracks : Defining(TrackLabel(i)) # {}}
RankOf(i) == Cardinality({j \in ChainedTracks : j <= i})

\* C26: every audio chain reads the encoder input at which its own file
\* was passed.  Image-based: the inputs are the scene images, then the file
\* of every track, skipped or not, and the chain of track i (0-based) reads
\* input sceneCount + i.  Video-based: the inputs are the base video, then
\* the files of the surviving tracks only, and the chain of the k-th
\* surviving track reads input k, whatever its label [a i] is.
C26_ChainReadsItsOwnInput ==
    Encoding
        => LET inputs == ffmpegArgs.inputs
               scenes == Len(req.sceneList)
           IN  IF node = "image"
               THEN /\ Len(inputs) = scenes + Len(req.audioList)
                    /\ \A k \in DOMAIN req.sceneList :
                          inputs[k] = req.sceneList[k].image_filepath
                    /\ \A i \in Tracks : inputs[scenes + i] = req.audioList[i].path
                    /\ \A i \in ChainedTracks :
                          ChainOf(i)[1] = InPad(scenes + i - 1, "a")
               ELSE /\ Len(inputs) = 1 + Cardinality(ChainedTracks)
                    /\ inputs[1] = req.videoPath
                    /\ \A i \in ChainedTracks :
                          /\ inputs[RankOf(i) + 1] = req.audioList[i].path
                          /\ ChainOf(i)[1] = InPad(RankOf(i), "a")

\* C26 witness: in a video-based request the first track is skipped and the
\* second survives, so the chain labelled [a1] reads input 1
C26_Witness ==
    /\ Encoding
    /\ node = "video"
    /\ ChainedTracks = {2}
    /\ ChainOf(2)[1] = InPad(1, "a")
    /\ Last(ChainOf(2)) = Label("a", 1)

\* The same for the image-based composer: the skipped first track keeps
\* its place among the inputs
C26_ImageSkippedKeepsItsInput ==
    /\ Encoding
    /\ node = "image"
    /\ ChainedTracks = {2}
    /\ ChainOf(2)[1] = InPad(Len(req.sceneList) + 1, "a")
    /\ Len(ffmpegArgs.inputs) = Len(req.sceneList) + 2

\* ------------------------------------------------- labels of the graph
\* The labels statement e consumes
ConsumedBy(e) ==
    LET rd == Reads(Stmt(e)) IN {rd[k] : k \in {j \in DOMAIN rd : IsLabel(rd[j])}}

\* C27: in every graph of the two composers no label is the output of
\* more than one statement, and every label a statement consumes (concat
\* inputs, mix inputs, [video_concat], [mixed]) is the output of exactly
\* one statement, which comes earlier in the graph.
C27_LabelsDefinedOnceBeforeUse ==
    Encoding
        => LET ends == StmtEnds
           IN  /\ \A e \in ends : IsLabel(Graph[e])
               /\ \A e1, e2 \in ends : Graph[e1] = Graph[e2] => e1 = e2
               /\ \A e \in ends :
                     \A lab \in ConsumedBy(e) :
                        \E d \in ends : d < StmtStart(e) /\ Graph[d] = lab

\* C27 witness: two scene labels are concatenated, [video_concat] is read
\* by the statement after, two track labels are mixed and [mixed] is read
\* by the gain statement
C27_Witness ==
    /\ Encoding
    /\ \E e \in StmtEnds : ConsumedBy(e) = {Label("v", 0), Label("v", 1)}
    /\ \E e \in StmtEnds : ConsumedBy(e) = {Named("video_concat")}
    /\ \E e \in StmtEnds : ConsumedBy(e) = {Label("a", 0), Label("a", 1)}
    /\ \E e \in StmtEnds : ConsumedBy(e) = {Named("mixed")}

\* The same with a skipped track in a video-based request: the mix reads
\* the original audio and the label of the second track only
C27_SkippedTrackReached ==
    /\ Encoding
    /\ node = "video"
    /\ \E e \in StmtEnds : ConsumedBy(e) = {Named("orig_audio"), Label("a", 1)}

\* ------------------------------------------- continueOnFail in a merge
\* C28: with continueOnFail no failure makes execute throw; every failure
\* is returned as an error item paired with the input item that failed,
\* and where items are processed one by one the output has one entry per
\* input item, in input order.  This is to hold for every node and input
\* mode, the merge nodes in "fromNode" mode with no path found included.
\* (Violated: that error is thrown outside the try block.)
C28_ContinueOnFailNeverThrows ==
    continueOnFail
        => /\ pc # "thrown"
           /\ \A k \in DOMAIN returnData : returnData[k].pairedItem = k - 1
           /\ (pc = "returned" /\ inputMode = "manual") => Len(returnData) = itemIndex
           /\ (pc = "returned" /\ inputMode = "fromNode") => Len(returnData) = 1

\* What does hold with continueOnFail: execute throws only in "fromNode"
\* mode with no path found, and otherwise returns its entries in order
C28_ThrowsOnlyWithoutPaths ==
    continueOnFail
        => /\ pc = "thrown" => (inputMode = "fromNode" /\ NonBlank(items) = <<>>
                                  /\ error.type = "NoPaths" /\ returnData = <<>>)
           /\ \A k \in DOMAIN returnData : returnData[k].pairedItem = k - 1
           /\ (pc = "returned" /\ inputMode = "manual") => Len(returnData) = itemIndex
           /\ (pc = "returned" /\ inputMode = "fromNode") => Len(returnData) = 1

\* --------------------------------------------- the concat list on disk
\* The paths the request in hand gives, blank ones left out, in its order
GivenFiles == NonBlank(IF inputMode = "fromNode" THEN items ELSE req.paths)

\* C29: in Audio Merge the concat list file is on disk only after every
\* input file passed the existence check; it is there all the while the
\* encoder runs; it lists the input files in the given order; and it is
\* gone when execute returns or throws (and whenever a result or an error
\* is handled), whether the encoder succeeded or failed.
C29_ListFileLivesWhileEncoderRuns ==
    node = "audioMerge"
        => /\ pc = "encoding" => (fileList.exists /\ spawns = 1)
           /\ fileList.exists
                 => /\ pc \in {"encoding", "finally"}
                    /\ GivenFiles # <<>>
                    /\ \A k \in DOMAIN GivenFiles : Exists(GivenFiles[k])
                    /\ fileList.content = GivenFiles
           /\ spawns = 0 => ~fileList.exists

\* C29 witness: the encoder ran on a list of two files and failed, the
\* error is thrown out of execute and the list file is gone
C29_Witness ==
    /\ node = "audioMerge"
    /\ pc = "thrown"
    /\ error.type = "EncodeFailed"
    /\ spawns = 1
    /\ Len(inputFiles) = 2
    /\ ~fileList.exists

\* The list of two different files while the encoder runs
C29_ListInOrderReached ==
    /\ node = "audioMerge"
    /\ pc = "encoding"
    /\ fileList.content = <<StereoFile, MonoFile>>
    /\ inputMode = "manual"
    /\ req.paths = <<StereoFile, EmptyPath>> \o <<MonoFile>> \/ req.paths = <<StereoFile, MonoFile>>

\* ------------------------------------------- the target size of a merge
LargestWidth  == MaxOf({ProbedClip(i).width : i \in ClipIndices})
LargestHeight == MaxOf({ProbedClip(i).height : i \in ClipIndices})
\* The size the graph scales every input to
ScaledTo == {[w |-> Graph[k].a, h |-> Graph[k].b] : k \in NodesOfKind(Graph, "scale")}

\* C30: in Video Merge the target width and the target height are even,
\* the target width is at most the largest width and the target height at
\* most the largest height among the inputs, whatever the resolutions are.
\* (Violated: an odd largest width or height is rounded up to the next even
\* number.)
C30_TargetEvenAndWithinLargest ==
    MergeEncoding
        => /\ ScaledTo = {[w |-> targetWidth, h |-> targetHeight]}
           /\ targetWidth % 2 = 0
           /\ targetHeight % 2 = 0
           /\ targetWidth <= LargestWidth
           /\ targetHeight <= LargestHeight

\* What does hold: both are even and exceed the largest width and height by
\* 1 at most
C30_TargetEvenAndWithinOneOfLargest ==
    MergeEncoding
        => /\ ScaledTo = {[w |-> targetWidth, h |-> targetHeight]}
           /\ targetWidth % 2 = 0
           /\ targetHeight % 2 = 0
           /\ targetWidth <= LargestWidth + 1
           /\ targetHeight <= LargestHeight + 1

====
